---- MODULE Spec2Model ----
(***************************************************************************)
(* A model of the task dispatcher of declarative-worker-api               *)
(* (packages/orchestrator/src/engine/dispatcher.ts, kept here as           *)
(* src/unnamed/part_002): the retry executor executeWithRetry, the DAG     *)
(* scheduler processPipelineDAG with its step runner executeStep, and the  *)
(* sequential executor processPipelineSequential; and of what surrounds    *)
(* it: runEffects (packages/orchestrator/src/engine/effects.ts),           *)
(* enqueueTask, getTaskStatus and the worker processor of createWorkers    *)
(* (packages/orchestrator/src/server.ts).  The template resolver           *)
(* (resolveTemplates, getNestedValue) and the interpolation of effect      *)
(* messages are modelled as operators over tagged JavaScript values; the   *)
(* backend registry of @dwa/core is modelled from its specification.       *)
(* The queue tier (the job options of enqueueTask and the broker's         *)
(* retries), the lanes of enqueueTask and getTaskStatus, and the loop of   *)
(* splitMediaFile (packages/orchestrator/src/engine/streaming.ts) have     *)
(* specifications of their own.                                            *)
(*                                                                         *)
(* Every action is one synchronous run of the JavaScript code between two  *)
(* suspension points (await): the event loop runs such a piece to its end  *)
(* before anything else happens.                                           *)
(***************************************************************************)
EXTENDS Integers, Sequences, FiniteSets, TLC

VARIABLES
  \* ---- executeWithRetry, called on its own (SpecRetry) ----
  policy,      \* task.retry of the call: a RetryPolicy record or NoPolicy
  rPc,         \* "idle" | "direct" | "exec" | "sleep" | "resolved" | "rejected"
  rAttempt,    \* the loop variable attempt (1-based)
  calls,       \* the errors/results of the executor's invocations so far, in order
  waits,       \* the sleeps performed so far: <<[before |-> k, ms |-> d], ...>>
  lastError,   \* the local lastError
  settled      \* the value the promise of executeWithRetry settled with

retryVars == <<policy, rPc, rAttempt, calls, waits, lastError, settled>>

VARIABLES
  \* ---- processTask on a pipeline (SpecPipeline) ----
  task,           \* the Task: [steps |-> <<Step, ...>>, retry |-> policy]
  pc,             \* where processTask is: "start" | "await" (DAG: Promise.all of
                  \*   a group) | "yield" (DAG: sleep(10)) | "seq" (sequential:
                  \*   a step's execution) | "resolved" | "rejected"
  now,            \* the clock read by new Date(): it never runs backwards, and
                  \*   it has advanced whenever the scheduler runs again
  running,        \* DAG: the Set running
  completed,      \* DAG: the Set completed
  failed,         \* DAG: the Set failed
  results,        \* DAG: the Record results, id -> result
  stepResults,    \* sequential: the array stepResults
  stepStatuses,   \* the StepStatus objects, in Map order (DAG) or push order
  parallelGroups, \* DAG: the array parallelGroups
  group,          \* DAG: the ids of runnable, the group being awaited
  outcomes,       \* DAG: id -> outcome of the executeStep promises that settled
  attemptOf,      \* id -> the attempt of executeWithRetry that is in flight
  seqI,           \* sequential: the loop variable i
  progress,       \* the values onProgress was called with, in order
  rejection,      \* the error processTask rejected with
  returned,       \* the PipelineResult processTask resolved with
  onEvent,        \* whether processTask was given the callback onEvent
  events          \* the events onEvent was called with, in order:
                  \*   [type, stepId]

pipeVars ==
  <<task, pc, now, running, completed, failed, results, stepResults,
    stepStatuses, parallelGroups, group, outcomes, attemptOf, seqI, progress,
    rejection, returned, onEvent, events>>

VARIABLES
  \* ---- executeStep on a step with forEach (SpecForEach) ----
  items,          \* index -> [phase, attempt] of the item's execution; phase is
                  \*   "idle" (its batch has not started) | "select" (await
                  \*   selectBackend) | "exec" (backend.execute in flight) |
                  \*   "sleep" (retry backoff) | "done" | "rejected"
  feI,            \* the loop variable i of the batch loop
  itemResults,    \* the array itemResults
  fePc            \* "idle" | "batch" (await Promise.all(batchPromises)) | "done"

feVars == <<items, feI, itemResults, fePc>>

VARIABLES
  \* ---- enqueueTask and the worker processor, on one job (SpecWorker) ----
  job,            \* the job's data: the Task's effect lists onPending,
                  \*   onProgress, onSuccess and onError, and reports, the
                  \*   values processTask will call its progress callback with
  ePc,            \* where enqueueTask is: "start" | "added" (queue.add has
                  \*   put the job in the broker, its await has not resumed) |
                  \*   "pending" (await runEffects(task.onPending)) |
                  \*   "resolved" | "rejected"
  wPc,            \* where the processor is: "none" (no job in the broker) |
                  \*   "waiting" (job not picked up) | "p0" (await
                  \*   job.updateProgress(0)) | "task" (await processTask) |
                  \*   "p100" (await job.updateProgress(100)) | "success" |
                  \*   "error" (await runEffects) | "returned" | "thrown"
  runs,           \* the calls of runEffects: id -> [list, ph, status, ctx]
  jobProgress,    \* the progress field of the job in the broker
  updates,        \* the values of the job.updateProgress calls that nothing
                  \*   awaits and that the broker has not applied yet
  ticks,          \* how often processTask has called the progress callback
  outcome,        \* what processTask settled with
  caught,         \* the error of the processor's catch block
  reported        \* what the processor returned or threw to the broker

workerVars ==
  <<job, ePc, wPc, runs, jobProgress, updates, ticks, outcome, caught, reported>>

VARIABLES
  \* ---- processTask's choice of path and selectBackend (SpecDispatch) ----
  registry,       \* the names of the registered backends, in insertion order
  health,         \* the names whose isHealthy() returns true now
  call,           \* the Task given to processTask: [steps, backend]; its
                  \*   retry is the variable policy
  dPc,            \* "start" | "probe" (selectBackend awaits isHealthy) |
                  \*   "execute" (executeWithRetry) | "pipeline" | "rejected"
  path,           \* "none" | "dag" | "sequential" | "single"
  target,         \* the place in registry of the backend being probed
  probes,         \* the health probes made, in order: [name, ok]
  selected,       \* the name of the backend selectBackend returned
  selects,        \* the number of calls of selectBackend
  progressCalls,  \* the number of calls of onProgress
  dRejection      \* the error selectBackend raised

dispVars ==
  <<registry, health, call, dPc, path, target, probes, selected, selects,
    progressCalls, dRejection>>

VARIABLES
  \* ---- resolveTemplates and interpolate (SpecTemplate) ----
  tContext,       \* the context object templates are resolved against
  tKind,          \* "sequential" | "dag" (step contexts) | "effect"
  recipe,         \* how the string under resolution is built: [shape, path]
  resolved,       \* resolveTemplates({field: value}, context).field, once set
  sent,           \* interpolate(effect.message, context), once set
  tPc             \* "idle" | "start" | "done"

tplVars == <<tContext, tKind, recipe, resolved, sent, tPc>>

VARIABLES
  \* ---- getTaskStatus (SpecStatus) ----
  jobs,           \* queue name -> the broker's state of the job with the id
                  \*   looked up, or NoJobState when the queue has no such job
  sQueue,         \* the queue getTaskStatus reads
  lookup,         \* what getTaskStatus returned: [found, status]
  sPc             \* "idle" | "start" | "getJob" | "getState" | "done"

statVars == <<jobs, sQueue, lookup, sPc>>

VARIABLES
  \* ---- the job options of enqueueTask and the broker's retries (SpecQueue) ----
  jobOptions,     \* the JobsOptions given to queue.add: [attempts, backoff]
  executions,     \* how often the broker has called the processor for the job
  effectRuns      \* how often runEffects was called with the job's onError
                  \*   list and with its onSuccess list, all attempts counted

queueVars == <<jobOptions, executions, effectRuns>>

VARIABLES
  \* ---- the lanes of enqueueTask and getTaskStatus (SpecLanes) ----
  lanes,          \* queue name -> the jobs added to that queue, in order; the
                  \*   broker numbers the jobs of each queue from 1
  handles,        \* the jobs enqueued so far, in order: [lane, id], the
                  \*   queue the job went to and the id enqueueTask returned
  found           \* the last status lookup: [handle, queue, job]

laneVars == <<lanes, handles, found>>

VARIABLES
  \* ---- splitMediaFile (SpecSplit) ----
  media,          \* [duration, chunkSize, overlap], in seconds
  start,          \* the local start of splitMediaFile
  index,          \* the local index of splitMediaFile
  chunks,         \* the chunks pushed so far: [index, start, end]
  splitPc         \* "idle" | "duration" (awaits getMediaDuration) |
                  \*   "ffmpeg" (awaits execAsync) | "returned"

splitVars == <<media, start, index, chunks, splitPc>>

tierVars == <<queueVars, laneVars, splitVars>>

libVars == <<dispVars, tplVars, statVars, tierVars>>

vars == <<retryVars, pipeVars, feVars, workerVars, libVars>>

-----------------------------------------------------------------------------
(* Values *)

\* JavaScript's undefined, for an optional number that is absent.
Undefined == 0 - 1

\* The largest retry.attempts of a policy.
MaxAttempts == 3

\* The largest retry.delay of a policy (ms).
MaxDelay == 2

\* The default delay of executeWithRetry (ms).
DefaultDelay == 1000

NoPolicy == [attempts |-> Undefined, backoff |-> "none", delay |-> Undefined]

\* task.retry: absent, or {attempts?, backoff?, delay?}.
Policies ==
  [attempts : {Undefined} \cup (0 .. MaxAttempts),
   backoff  : {"none", "fixed", "exponential"},
   delay    : {Undefined} \cup (0 .. MaxDelay)]

NoValue == [kind |-> "none", msg |-> "", origin |-> 0]

\* What a producer can throw: an Error object or any other value (here a
\* string). origin is the invocation that created the value: two values are
\* the same JavaScript value iff they are equal records.
Thrown(k) ==
  { [kind |-> kd, msg |-> m, origin |-> k] : kd \in {"Error", "string"}, m \in {"boom", "bang"} }

Result(k) == [kind |-> "result", msg |-> "ok", origin |-> k]

\* error instanceof Error ? error : new Error(String(error))
ToError(error) ==
  IF error.kind = "Error" THEN error
  ELSE [kind |-> "Error", msg |-> error.msg, origin |-> 0]

RECURSIVE Pow2(_)
\* Math.pow(2, n) for n >= 0
Pow2(n) == IF n <= 0 THEN 1 ELSE 2 * Pow2(n - 1)

\* The policy test with < for <=: attempts = 1 enters the retry loop.
NoRetryStrict(retry) ==
  \/ retry.attempts = Undefined
  \/ retry.attempts = 0
  \/ retry.attempts < 1

\* !retry || !retry.attempts || retry.attempts <= 1
NoRetry(retry) ==
  \/ retry = NoPolicy
  \/ retry.attempts = Undefined
  \/ retry.attempts = 0
  \/ retry.attempts <= 1

\* const delay = retry.delay || 1000
BaseDelay(retry) ==
  IF retry.delay = Undefined \/ retry.delay = 0 THEN DefaultDelay ELSE retry.delay

\* retry.backoff === "exponential" ? delay * Math.pow(2, attempt - 1) : delay
BackoffDelay(retry, attempt) ==
  IF retry.backoff = "exponential"
    THEN BaseDelay(retry) * Pow2(attempt - 1)
    ELSE BaseDelay(retry)

-----------------------------------------------------------------------------
(* Pipelines *)

\* The largest number of steps of a pipeline.
MaxSteps == 3

\* The largest retry.attempts of a pipeline's task.
MaxStepAttempts == 2

\* A step without id.
NoId == ""

\* The ids, tasks and generated ids (`step_${index}`) of the steps, by position.
IdNames == <<"a", "b", "c", "d", "e">>
TaskNames == <<"t1", "t2", "t3", "t4", "t5">>
SynthIds == <<"step_0", "step_1", "step_2", "step_3", "step_4">>

\* The largest number of dependsOn entries, optional marks and extra retry
\* attempts (attempts - 1) that a pipeline has, taken together.
MaxFeatures == 3

RECURSIVE Choices(_, _)
\* The ways to choose at most k of the numbers 1 .. m, each one a strictly
\* increasing sequence.
Choices(m, k) ==
  IF k <= 0 THEN {<<>>}
  ELSE LET smaller == Choices(m, k - 1)
           longest == { c \in smaller : Len(c) = k - 1 }
       IN  smaller \cup
           UNION { { Append(c, x) : x \in (IF c = <<>> THEN 1 ELSE c[Len(c)] + 1) .. m } :
                   c \in longest }

\* task.retry of a pipeline: absent, or attempts = extra + 1 with a fixed delay.
StepPolicy(extra) ==
  IF extra = 0 THEN NoPolicy
  ELSE [attempts |-> extra + 1, backoff |-> "fixed", delay |-> 1]

\* An id that no step has.
MissingId == "missing"

\* What a pipeline of n steps can have, by number: DepSlot(n, i, j) puts the
\* id of step j in the dependsOn of step i (cycles and self-references
\* included), DepSlot(n, i, 0) puts there an id that no step has,
\* OptSlot(n, i) makes step i optional.
DepSlot(n, i, j) == (i - 1) * (n + 1) + j + 1
OptSlot(n, i) == n * (n + 1) + i
SlotCount(n, withIds) == IF withIds THEN n * (n + 1) + n ELSE n

Chosen(c, x) == \E q \in 1 .. Len(c) : c[q] = x

\* The steps of a pipeline of n steps with the chosen features; with ids
\* (DAG mode) or without id and dependsOn (sequential mode).
StepsOf(n, c, withIds) ==
  [i \in 1 .. n |->
     [id |-> IF withIds THEN IdNames[i] ELSE NoId,
      task |-> TaskNames[i],
      dependsOn |-> IF withIds
                      THEN { IF j = 0 THEN MissingId ELSE IdNames[j] :
                             j \in { k \in 0 .. n : Chosen(c, DepSlot(n, i, k)) } }
                      ELSE {},
      optional |-> Chosen(c, IF withIds THEN OptSlot(n, i) ELSE i),
      forEach |-> Undefined,
      forEachConcurrency |-> Undefined]]

\* Whether t is a pipeline of the model: at most MaxSteps steps, and at most
\* MaxFeatures features with its extra attempts.
IsPipeline(t) ==
  \E n \in 1 .. MaxSteps, extra \in 0 .. MaxStepAttempts - 1, withIds \in BOOLEAN :
    \E c \in Choices(SlotCount(n, withIds), MaxFeatures - extra) :
      t = [steps |-> StepsOf(n, c, withIds), retry |-> StepPolicy(extra)]

NoError == [kind |-> "none", msg |-> <<>>, origin |-> 0]

\* The error a backend raises for task t on attempt k: every step and every
\* attempt has its own message.
BackendError(t, k) == [kind |-> "Error", msg |-> <<t, k>>, origin |-> k]

\* The result a backend returns for task t.
BackendResult(t) == [value |-> <<"one", t>>, skipped |-> FALSE, error |-> <<>>]

\* { error: errorMsg, skipped: true }
SkippedResult(errorMsg) == [value |-> <<>>, skipped |-> TRUE, error |-> errorMsg]

\* undefined
NoResult == [value |-> <<>>, skipped |-> FALSE, error |-> <<>>]

EmptyMap == [x \in {} |-> NoResult]

Put(f, k, v) == [x \in DOMAIN f \cup {k} |-> IF x = k THEN v ELSE f[x]]

Range(seq) == { seq[i] : i \in 1 .. Len(seq) }

\* Math.floor in the place of Math.round.
FloorPercent(a, b) == (100 * a) \div b

\* Math.round((a / b) * 100), for a, b >= 0 and b > 0
RoundPercent(a, b) == (200 * a + b) \div (2 * b)

Steps == task.steps

\* task.steps.some((s) => s.dependsOn?.length || s.id)
HasDependencies ==
  \E i \in 1 .. Len(Steps) : Steps[i].dependsOn # {} \/ Steps[i].id # NoId

\* step.id || `step_${index}`
StepIdAt(i) == IF Steps[i].id # NoId THEN Steps[i].id ELSE SynthIds[i]

\* The keys of stepMap in Map order: a key keeps the place of its first set.
StepMapKeys ==
  LET first == { i \in 1 .. Len(Steps) : \A j \in 1 .. i - 1 : StepIdAt(j) # StepIdAt(i) }
      RECURSIVE Build(_)
      Build(i) == IF i > Len(Steps) THEN <<>>
                  ELSE IF i \in first THEN <<StepIdAt(i)>> \o Build(i + 1)
                  ELSE Build(i + 1)
  IN  Build(1)

\* stepMap.get(id): the last step set under the id.
StepMapGet(id) ==
  LET last == CHOOSE i \in 1 .. Len(Steps) :
                /\ StepIdAt(i) = id
                /\ \A j \in i + 1 .. Len(Steps) : StepIdAt(j) # id
  IN  Steps[last]

\* The place of id's StepStatus in stepStatuses.
StatusIndex(id) == CHOOSE k \in 1 .. Len(stepStatuses) : stepStatuses[k].id = id

\* Dependencies not tested at all.
DepsIgnored(step) == step.dependsOn = step.dependsOn

\* Dependencies tested for not having failed, instead of having completed.
DepsNotFailed(step) == \A depId \in step.dependsOn : depId \notin failed

\* deps.every((depId) => completed.has(depId))
DepsSatisfied(step) == \A depId \in step.dependsOn : depId \in completed

\* canRun without its test of completed: a completed step runs again.
CanRunAgain(step, stepId) ==
  IF stepId \in running \/ stepId \in failed
    THEN FALSE
    ELSE DepsSatisfied(step)

\* canRun(step, stepId)
CanRun(step, stepId) ==
  IF stepId \in running \/ stepId \in completed \/ stepId \in failed
    THEN FALSE
    ELSE DepsSatisfied(step)

\* getRunnableSteps(): the ids, in Map order
GetRunnableSteps == SelectSeq(StepMapKeys, LAMBDA id : CanRun(StepMapGet(id), id))

\* A catch block that never takes the optional branch.
NeverOptional(step) == FALSE

\* if (step.optional)
IsOptional(step) == step.optional

\* step.retry || task.retry (steps carry no policy of their own here)
RetryOf(step) == task.retry

-----------------------------------------------------------------------------
(* executeWithRetry(task, executor) *)

RetryIdle ==
  /\ rPc = "idle" /\ rAttempt = 0 /\ calls = <<>> /\ waits = <<>>
  /\ lastError = NoValue /\ settled = NoValue

\* The call: the policy test, and the first invocation of the executor.
RetryCall ==
  /\ rPc = "idle"
  /\ IF NoRetry(policy)
       THEN /\ rPc' = "direct"
            /\ rAttempt' = 0
       ELSE /\ rPc' = "exec"
            /\ rAttempt' = 1
  /\ calls' = <<NoValue>>
  /\ UNCHANGED <<policy, waits, lastError, settled>>

\* The executor's promise resolves: return executor() / return await executor().
ExecutorResolves ==
  /\ rPc \in {"direct", "exec"}
  /\ rPc' = "resolved"
  /\ settled' = Result(Len(calls))
  /\ calls' = [calls EXCEPT ![Len(calls)] = Result(Len(calls))]
  /\ UNCHANGED <<policy, rAttempt, waits, lastError>>

\* A loop that runs once too often.
LoopContinuesOnceMore(retry, attempt) == attempt <= retry.attempts + 1

\* for (...; attempt <= retry.attempts; ...)
LoopContinues(retry, attempt) == attempt <= retry.attempts

\* if (attempt < retry.attempts) { ... await sleep(backoffDelay) }
ShouldWait(retry, attempt) == attempt < retry.attempts

\* The end of the catch block: attempt++, the loop test, and either the next
\* invocation of the executor or throw lastError.
NextAttempt(err) ==
  /\ rAttempt' = rAttempt + 1
  /\ IF LoopContinues(policy, rAttempt + 1)
       THEN /\ rPc' = "exec"
            /\ calls' = Append(calls, NoValue)
            /\ UNCHANGED settled
       ELSE /\ rPc' = "rejected"
            /\ settled' = err
            /\ UNCHANGED calls

\* The executor's promise rejects with error.
ExecutorRejects ==
  /\ rPc \in {"direct", "exec"}
  /\ \E error \in Thrown(Len(calls)) :
       LET raised == [calls EXCEPT ![Len(calls)] = error] IN
       IF rPc = "direct"
         THEN \* no try/catch on this path: the rejection is the caller's
              /\ rPc' = "rejected"
              /\ settled' = error
              /\ calls' = raised
              /\ UNCHANGED <<rAttempt, waits, lastError>>
         ELSE /\ lastError' = ToError(error)
              /\ IF ShouldWait(policy, rAttempt)
                   THEN /\ waits' = Append(waits,
                               [before |-> rAttempt + 1,
                                ms |-> BackoffDelay(policy, rAttempt)])
                        /\ rPc' = "sleep"
                        /\ calls' = raised
                        /\ UNCHANGED <<rAttempt, settled>>
                   ELSE /\ rAttempt' = rAttempt + 1
                        /\ IF LoopContinues(policy, rAttempt + 1)
                             THEN /\ rPc' = "exec"
                                  /\ calls' = Append(raised, NoValue)
                                  /\ UNCHANGED settled
                             ELSE /\ rPc' = "rejected"
                                  /\ settled' = ToError(error)
                                  /\ calls' = raised
                        /\ UNCHANGED waits
  /\ UNCHANGED policy

\* sleep(backoffDelay) is over: the catch block ends.
SleepOver ==
  /\ rPc = "sleep"
  /\ NextAttempt(lastError)
  /\ UNCHANGED <<policy, waits, lastError>>

-----------------------------------------------------------------------------
(* processTask on a pipeline: processPipelineDAG, executeStep and            *)
(* processPipelineSequential                                                 *)

NoReturn ==
  [steps |-> <<>>, stepResults |-> EmptyMap, stepStatus |-> <<>>,
   finalResult |-> NoResult, parallelGroups |-> <<>>, set |-> FALSE]

PipelineFresh ==
  /\ pc = "start" /\ now = 0
  /\ running = {} /\ completed = {} /\ failed = {}
  /\ results = EmptyMap /\ stepResults = <<>> /\ stepStatuses = <<>>
  /\ parallelGroups = <<>> /\ group = <<>> /\ outcomes = EmptyMap
  /\ attemptOf = EmptyMap /\ seqI = 0 /\ progress = <<>>
  /\ rejection = NoError /\ returned = NoReturn
  /\ events = <<>>

ForEachIdle ==
  /\ items = <<>> /\ feI = 0 /\ itemResults = <<>> /\ fePc = "idle"

PipelineIdle ==
  /\ task = [steps |-> <<>>, retry |-> NoPolicy]
  /\ onEvent = FALSE
  /\ PipelineFresh

\* An optional field: absent, or present with value v.
None == <<>>
Some(v) == <<v>>

\* No backend.
NoBackend == ""

\* processTask has not been called, and no backend is registered.
DispatchFresh ==
  /\ registry = <<>>
  /\ dPc = "start" /\ path = "none" /\ target = 0 /\ probes = <<>>
  /\ selected = NoBackend /\ selects = 0 /\ progressCalls = 0
  /\ dRejection = NoValue

DispatchIdle ==
  /\ call = [steps |-> None, backend |-> None]
  /\ health = {}
  /\ DispatchFresh

\* Nothing is being resolved.
TemplateIdle ==
  /\ tContext = <<>> /\ tKind = "none" /\ recipe = <<>>
  /\ resolved = <<>> /\ sent = <<>> /\ tPc = "idle"

\* No job with the id.
NoJobState == "none"

\* getTaskStatus has not returned.
NoLookup == [found |-> FALSE, status |-> ""]

\* getTaskStatus is not called.
StatusIdle ==
  /\ jobs = <<>> /\ sQueue = "" /\ lookup = NoLookup /\ sPc = "idle"

\* queue.add has not been called.
NoOptions == [attempts |-> Undefined, backoff |-> [type |-> "none", delay |-> Undefined]]

QueueIdle ==
  /\ jobOptions = NoOptions
  /\ executions = 0
  /\ effectRuns = [onError |-> 0, onSuccess |-> 0]

\* No lookup was made.
NoFound == [handle |-> 0, queue |-> "", job |-> <<>>]

LanesIdle ==
  /\ lanes = <<>>
  /\ handles = <<>>
  /\ found = NoFound

SplitIdle ==
  /\ media = <<>>
  /\ start = 0
  /\ index = 0
  /\ chunks = <<>>
  /\ splitPc = "idle"

TierIdle == QueueIdle /\ LanesIdle /\ SplitIdle

LibIdle == DispatchIdle /\ TemplateIdle /\ StatusIdle /\ TierIdle

\* A job without effects and reports.
NoJob ==
  [onPending |-> <<>>, onProgress |-> <<>>, onSuccess |-> <<>>, onError |-> <<>>,
   reports |-> <<>>]

\* enqueueTask has not been called.
WorkerFresh ==
  /\ ePc = "start" /\ wPc = "none"
  /\ runs = EmptyMap
  /\ jobProgress = Undefined /\ updates = {} /\ ticks = 0
  /\ outcome = NoValue /\ caught = NoValue /\ reported = NoValue

WorkerIdle ==
  /\ job = NoJob
  /\ WorkerFresh

\* { id, task: step.task, status: "pending" }
PendingStatus(id) ==
  [id |-> id, task |-> StepMapGet(id).task, status |-> "pending",
   startedAt |-> Undefined, completedAt |-> Undefined, error |-> <<>>]

\* { id: stepId, task: step.task, status: "running", startedAt: new Date() }
RunningStatus(id, t) ==
  [id |-> id, task |-> t, status |-> "running",
   startedAt |-> now, completedAt |-> Undefined, error |-> <<>>]

\* status.status = "running"; status.startedAt = new Date()
MarkRunning(st, ids) ==
  [k \in 1 .. Len(st) |->
     IF st[k].id \in ids
       THEN [st[k] EXCEPT !.status = "running", !.startedAt = now]
       ELSE st[k]]

\* status.status = ...; status.completedAt = new Date(); status.error = ...
MarkDone(st, id, status, errorMsg) ==
  [k \in 1 .. Len(st) |->
     IF st[k].id = id
       THEN [st[k] EXCEPT !.status = status, !.completedAt = now, !.error = errorMsg]
       ELSE st[k]]

Get(f, k) == IF k \in DOMAIN f THEN f[k] ELSE NoResult

\* The error of the deadlock branch: its message lists the task of every step
\* whose id is neither completed nor failed.
DeadlockError ==
  LET remaining == SelectSeq([i \in 1 .. Len(Steps) |-> i],
                     LAMBDA i : StepIdAt(i) \notin completed /\ StepIdAt(i) \notin failed)
  IN  [kind |-> "Error",
       msg |-> <<"Pipeline deadlock", [k \in 1 .. Len(remaining) |-> Steps[remaining[k]].task]>>,
       origin |-> 0]

\* The first entry for the last one.
FirstOf(seq) == seq[1]

\* orderedResults[orderedResults.length - 1]
LastOf(seq) == seq[Len(seq)]

\* The PipelineResult of processPipelineDAG.
DagResult(st) ==
  LET orderedResults == [i \in 1 .. Len(Steps) |-> Get(results, StepIdAt(i))] IN
  [steps |-> orderedResults,
   stepResults |-> results,
   stepStatus |-> st,
   finalResult |-> LastOf(orderedResults),
   parallelGroups |-> parallelGroups,
   set |-> TRUE]

\* The PipelineResult of processPipelineSequential.
SeqResult(st, res) ==
  [steps |-> res,
   stepResults |-> [id \in { SynthIds[i] : i \in 1 .. Len(res) } |->
                      res[CHOOSE i \in 1 .. Len(res) : SynthIds[i] = id]],
   stepStatus |-> st,
   finalResult |-> IF Len(res) > 0 THEN LastOf(res) ELSE NoResult,
   parallelGroups |-> <<>>,
   set |-> TRUE]

\* An emit that calls onEvent twice.
EmitTwice(ev, type, stepId) ==
  IF onEvent
    THEN ev \o <<[type |-> type, stepId |-> stepId], [type |-> type, stepId |-> stepId]>>
    ELSE ev

\* emit(type, stepId): if (onEvent) onEvent({ type, stepId, ... }), with ev
\* the events so far; stepId is NoId for undefined.
Emit(ev, type, stepId) ==
  IF onEvent THEN Append(ev, [type |-> type, stepId |-> stepId]) ELSE ev

RECURSIVE EmitEach(_, _, _)
\* emit(type, id) for each of ids, in order
EmitEach(ev, type, ids) ==
  IF ids = <<>> THEN ev
  ELSE EmitEach(Emit(ev, type, Head(ids)), type, Tail(ids))

\* The loop test off by one: the loop ends with one step left.
DagLoopEndsEarly == Cardinality(completed) + Cardinality(failed) + 1 < Len(Steps)

\* while (completed.size + failed.size < totalSteps)
DagLoopContinues == Cardinality(completed) + Cardinality(failed) < Len(Steps)

\* The main execution loop of processPipelineDAG from the top of the while to
\* its next await (or to its return or throw), with st the StepStatus objects,
\* prog the progress reports and ev the events so far. The steps of a group
\* start here: executeStep runs to its first await inside runnable.map.
DagLoop(st, prog, ev) ==
  /\ progress' = prog
  /\ IF DagLoopContinues
       THEN LET runnable == GetRunnableSteps IN
            IF Len(runnable) = 0
              THEN IF Cardinality(running) = 0
                     THEN /\ pc' = "rejected"
                          /\ rejection' = DeadlockError
                          /\ stepStatuses' = st
                          /\ events' = ev
                          /\ UNCHANGED <<running, parallelGroups, group, outcomes,
                                         attemptOf, returned>>
                     ELSE /\ pc' = "yield"
                          /\ stepStatuses' = st
                          /\ events' = ev
                          /\ UNCHANGED <<running, parallelGroups, group, outcomes,
                                         attemptOf, returned, rejection>>
              ELSE /\ parallelGroups' = IF Len(runnable) > 1
                                          THEN Append(parallelGroups, runnable)
                                          ELSE parallelGroups
                   /\ running' = running \cup Range(runnable)
                   /\ stepStatuses' = MarkRunning(st, Range(runnable))
                   /\ attemptOf' = [id \in Range(runnable) |-> 1]
                   /\ group' = runnable
                   /\ outcomes' = EmptyMap
                   /\ events' = EmitEach(ev, "step:start", runnable)
                   /\ pc' = "await"
                   /\ UNCHANGED <<returned, rejection>>
       ELSE /\ pc' = "resolved"
            /\ returned' = DagResult(st)
            /\ stepStatuses' = st
            /\ events' = Emit(ev, "pipeline:complete", NoId)
            /\ UNCHANGED <<running, parallelGroups, group, outcomes, attemptOf,
                           rejection>>

\* A loop that leaves out every second step.
SkipsAStep(i) == i + 2

\* i++ of the for loop of processPipelineSequential
NextStep(i) == i + 1

\* The for loop of processPipelineSequential from the top of iteration i
\* (0-based) to its next await, or to the return after the last step.
SeqLoop(i, st, res, prog, ev) ==
  /\ stepResults' = res
  /\ IF i < Len(Steps)
       THEN /\ progress' = Append(prog, RoundPercent(i, Len(Steps)))
            /\ stepStatuses' = Append(st, RunningStatus(SynthIds[i + 1], Steps[i + 1].task))
            /\ seqI' = i
            /\ attemptOf' = [id \in {SynthIds[i + 1]} |-> 1]
            /\ events' = Emit(ev, "step:start", SynthIds[i + 1])
            /\ pc' = "seq"
            /\ UNCHANGED <<returned, rejection>>
       ELSE /\ progress' = prog
            /\ stepStatuses' = st
            /\ seqI' = i
            /\ attemptOf' = EmptyMap
            /\ pc' = "resolved"
            /\ returned' = SeqResult(st, res)
            /\ events' = Emit(ev, "pipeline:complete", NoId)
            /\ UNCHANGED rejection

\* processTask(task) for a task with steps: the choice of the scheduler and
\* its run to the first await.
ProcessTask ==
  /\ pc = "start"
  /\ Len(Steps) > 0
  /\ HasDependencies => \A i \in 1 .. Len(Steps) : Steps[i].forEach = Undefined
  /\ now' = now + 1
  /\ IF HasDependencies
       THEN /\ DagLoop([k \in 1 .. Len(StepMapKeys) |-> PendingStatus(StepMapKeys[k])],
                       progress, events)
            /\ UNCHANGED <<stepResults, seqI>>
       ELSE /\ SeqLoop(0, <<>>, <<>>, progress, events)
            /\ UNCHANGED <<running, parallelGroups, group, outcomes>>
  /\ UNCHANGED <<task, onEvent, completed, failed, results>>

\* A step that stays in the Set running when its execution is over.
RunningKeeps(id) == running

\* running.delete(stepId)
RunningDelete(id) == running \ {id}

\* DAG: backend.execute of step id resolves; executeStep marks the step
\* completed and returns { id, result }.
DagStepResolves(id) ==
  /\ id \in running
  /\ LET step == StepMapGet(id)
         result == BackendResult(step.task)
     IN  /\ running' = RunningDelete(id)
         /\ completed' = completed \cup {id}
         /\ results' = Put(results, id, result)
         /\ stepStatuses' = MarkDone(stepStatuses, id, "completed", <<>>)
         /\ outcomes' = Put(outcomes, id, NoError)
         /\ events' = Emit(events, "step:complete", id)
  /\ attemptOf' = [x \in DOMAIN attemptOf \ {id} |-> attemptOf[x]]
  /\ UNCHANGED <<task, onEvent, pc, now, failed, stepResults, parallelGroups, group, seqI,
                 progress, rejection, returned>>

\* Whether executeWithRetry makes another attemptOf after failed attemptOf k.
Retries(retry, k) == ~NoRetry(retry) /\ ShouldWait(retry, k) /\ LoopContinues(retry, k + 1)

\* DAG: backend.execute of step id rejects. executeWithRetry waits and makes
\* its next attemptOf, or gives up: then the catch block of executeStep marks
\* the step skipped (optional) or failed.
DagStepRejects(id) ==
  /\ id \in running
  /\ LET step == StepMapGet(id)
         error == BackendError(step.task, attemptOf[id])
         errorMsg == error.msg
     IN  IF Retries(RetryOf(step), attemptOf[id])
           THEN /\ attemptOf' = [attemptOf EXCEPT ![id] = @ + 1]
                /\ UNCHANGED <<running, completed, failed, results, stepStatuses,
                               outcomes, events>>
           ELSE /\ running' = RunningDelete(id)
                /\ attemptOf' = [x \in DOMAIN attemptOf \ {id} |-> attemptOf[x]]
                /\ events' = Emit(events, "step:error", id)
                /\ IF IsOptional(step)
                     THEN /\ completed' = completed \cup {id}
                          /\ results' = Put(results, id, SkippedResult(errorMsg))
                          /\ stepStatuses' = MarkDone(stepStatuses, id, "skipped", errorMsg)
                          /\ outcomes' = Put(outcomes, id, NoError)
                          /\ UNCHANGED failed
                     ELSE /\ failed' = failed \cup {id}
                          /\ stepStatuses' = MarkDone(stepStatuses, id, "failed", errorMsg)
                          /\ outcomes' = Put(outcomes, id, ToError(error))
                          /\ UNCHANGED <<completed, results>>
  /\ UNCHANGED <<task, onEvent, pc, now, stepResults, parallelGroups, group, seqI,
                 progress, rejection, returned>>

\* The error selectBackend raises for the step with task t: an Error object
\* created before any attempt.
SelectFailure(t) == [kind |-> "Error", msg |-> <<t, 0>>, origin |-> 0]

\* selectBackend called before the try block: its error is never caught.
SelectOutsideTry(step) == FALSE

\* await selectBackend(stepTask) is inside the try block, so its error reaches
\* the catch block and its test of step.optional.
SelectInsideTry(step) == IsOptional(step)

\* DAG: selectBackend of step id rejects, before the first attempt: the catch
\* block of executeStep marks the step skipped (optional) or failed.
DagStepSelectFails(id) ==
  /\ id \in running
  /\ attemptOf[id] = 1
  /\ LET step == StepMapGet(id)
         error == SelectFailure(step.task)
         errorMsg == error.msg
     IN  /\ running' = RunningDelete(id)
         /\ attemptOf' = [x \in DOMAIN attemptOf \ {id} |-> attemptOf[x]]
         /\ events' = Emit(events, "step:error", id)
         /\ IF SelectInsideTry(step)
              THEN /\ completed' = completed \cup {id}
                   /\ results' = Put(results, id, SkippedResult(errorMsg))
                   /\ stepStatuses' = MarkDone(stepStatuses, id, "skipped", errorMsg)
                   /\ outcomes' = Put(outcomes, id, NoError)
                   /\ UNCHANGED failed
              ELSE /\ failed' = failed \cup {id}
                   /\ stepStatuses' = MarkDone(stepStatuses, id, "failed", errorMsg)
                   /\ outcomes' = Put(outcomes, id, ToError(error))
                   /\ UNCHANGED <<completed, results>>
  /\ UNCHANGED <<task, onEvent, pc, now, stepResults, parallelGroups, group, seqI,
                 progress, rejection, returned>>

\* The failure check looking at the first outcome of the group only.
FirstOutcomeFailure ==
  IF outcomes[group[1]] # NoError THEN 1 ELSE 0

\* The failure check taking the last failed outcome of the group.
LastFailure ==
  LET bad == { k \in 1 .. Len(group) : outcomes[group[k]] # NoError }
  IN  IF bad = {} THEN 0 ELSE CHOOSE k \in bad : \A j \in bad : k >= j

\* for (const outcome of outcomes) if (outcome.error) throw outcome.error:
\* the index in the group of the outcome that is thrown, or 0.
FirstFailure ==
  LET bad == { k \in 1 .. Len(group) : outcomes[group[k]] # NoError }
  IN  IF bad = {} THEN 0 ELSE CHOOSE k \in bad : \A j \in bad : k <= j

\* A group that is never awaited to its end.
GroupNeverSettles == FALSE

\* await Promise.all(executions): every executeStep promise of the group has
\* resolved (none of them rejects: executeStep catches every error).
GroupSettled == DOMAIN outcomes = Range(group)

\* DAG: Promise.all(executions) resolves (or sleep(10) ends): the failure
\* check, the progress report and the loop to its next await.
DagResume ==
  /\ pc \in {"await", "yield"}
  /\ pc = "await" => GroupSettled
  /\ now' = now + 1
  /\ IF pc = "await" /\ FirstFailure # 0
       THEN /\ pc' = "rejected"
            /\ rejection' = outcomes[group[FirstFailure]]
            /\ UNCHANGED <<running, stepStatuses, parallelGroups, group, outcomes,
                           attemptOf, progress, returned, events>>
       ELSE DagLoop(stepStatuses,
                    IF pc = "await"
                      THEN Append(progress, RoundPercent(Cardinality(completed), Len(Steps)))
                      ELSE progress,
                    events)
  /\ UNCHANGED <<task, onEvent, completed, failed, results, stepResults, seqI>>

\* Sequential: backend.execute of step i resolves; the rest of the iteration
\* and the loop to its next await.
SeqStepResolves ==
  /\ pc = "seq"
  /\ LET i == seqI
         result == BackendResult(Steps[i + 1].task)
     IN  SeqLoop(NextStep(i),
                 MarkDone(stepStatuses, SynthIds[i + 1], "completed", <<>>),
                 Append(stepResults, result),
                 progress,
                 Emit(events, "step:complete", SynthIds[i + 1]))
  /\ now' = now + 1
  /\ UNCHANGED <<task, onEvent, running, completed, failed, results,
                 parallelGroups, group, outcomes>>

\* Sequential: backend.execute of step i rejects. executeWithRetry makes its
\* next attemptOf, or gives up: then the catch block skips the step (optional)
\* and continues, or marks it failed and rethrows.
SeqStepRejects ==
  /\ pc = "seq"
  /\ LET i == seqI
         step == Steps[i + 1]
         stepId == SynthIds[i + 1]
         error == BackendError(step.task, attemptOf[stepId])
         errorMsg == error.msg
     IN  IF Retries(RetryOf(step), attemptOf[stepId])
           THEN /\ attemptOf' = [attemptOf EXCEPT ![stepId] = @ + 1]
                /\ UNCHANGED <<pc, stepResults, stepStatuses, seqI, progress,
                               rejection, returned, events>>
           ELSE IF IsOptional(step)
                  THEN SeqLoop(NextStep(i),
                               MarkDone(stepStatuses, stepId, "skipped", errorMsg),
                               Append(stepResults, SkippedResult(errorMsg)),
                               progress,
                               Emit(events, "step:error", stepId))
                  ELSE /\ stepStatuses' = MarkDone(stepStatuses, stepId, "failed", errorMsg)
                       /\ pc' = "rejected"
                       /\ rejection' = IF NoRetry(RetryOf(step)) THEN error ELSE ToError(error)
                       /\ attemptOf' = EmptyMap
                       /\ events' = Emit(events, "step:error", stepId)
                       /\ UNCHANGED <<stepResults, seqI, progress, returned>>
  /\ now' = now + 1
  /\ UNCHANGED <<task, onEvent, running, completed, failed, results,
                 parallelGroups, group, outcomes>>

\* Sequential: selectBackend of step i rejects, before the first attempt: the
\* catch block skips the step (optional) and continues, or marks it failed and
\* rethrows.
SeqStepSelectFails ==
  /\ pc = "seq"
  /\ LET i == seqI
         step == Steps[i + 1]
         stepId == SynthIds[i + 1]
         error == SelectFailure(step.task)
         errorMsg == error.msg
     IN  /\ attemptOf[stepId] = 1
         /\ IF SelectInsideTry(step)
              THEN SeqLoop(NextStep(i),
                           MarkDone(stepStatuses, stepId, "skipped", errorMsg),
                           Append(stepResults, SkippedResult(errorMsg)),
                           progress,
                           Emit(events, "step:error", stepId))
              ELSE /\ stepStatuses' = MarkDone(stepStatuses, stepId, "failed", errorMsg)
                   /\ pc' = "rejected"
                   /\ rejection' = error
                   /\ attemptOf' = EmptyMap
                   /\ events' = Emit(events, "step:error", stepId)
                   /\ UNCHANGED <<stepResults, seqI, progress, returned>>
  /\ now' = now + 1
  /\ UNCHANGED <<task, onEvent, running, completed, failed, results,
                 parallelGroups, group, outcomes>>

-----------------------------------------------------------------------------
(* executeStep on a step with forEach, as the only step of a pipeline *)

\* The largest number of items a forEach template resolves to.
MaxItems == 3

\* What typeof gives for a value that is not an array, by number.
ItemKinds == <<"undefined", "object", "string">>

\* step.forEach stands for what resolveTemplate(step.forEach, context) gives:
\* n >= 0 is an array of n items, NotArray(k) a value that is no array and
\* whose typeof is ItemKinds[k].
NotArray(k) == Undefined - k

\* Array.isArray(items)
IsArray(resolvedItems) == resolvedItems >= 0

\* typeof items
TypeOfItems(resolvedItems) == ItemKinds[Undefined - resolvedItems]

\* new Error(`forEach template "${step.forEach}" did not resolve to array,
\* got: ${typeof items}`)
ForEachError(step) ==
  [kind |-> "Error",
   msg |-> <<"forEach template", step.forEach, "did not resolve to array, got",
             TypeOfItems(step.forEach)>>,
   origin |-> 0]

\* A pipeline of one step with forEach: the template resolves to an array of
\* n items or to something that is no array; forEachConcurrency is absent, 0
\* or positive. The step has an id (the DAG scheduler runs it) or none (the
\* sequential one does).
IsForEachPipeline(t) ==
  \E n \in (0 .. MaxItems) \cup { NotArray(k) : k \in 1 .. Len(ItemKinds) },
     c \in {Undefined} \cup (0 .. MaxItems), opt \in BOOLEAN,
     extra \in 0 .. MaxStepAttempts - 1, id \in {IdNames[1], NoId} :
    t = [steps |-> <<[id |-> id, task |-> TaskNames[1], dependsOn |-> {},
                      optional |-> opt, forEach |-> n, forEachConcurrency |-> c]>>,
         retry |-> StepPolicy(extra)]

\* Every item started at once, whatever forEachConcurrency says.
ConcurrencyIgnored(step, n) == n

\* const concurrency = step.forEachConcurrency || items.length
Concurrency(step, n) ==
  IF step.forEachConcurrency = Undefined \/ step.forEachConcurrency = 0
    THEN n
    ELSE step.forEachConcurrency

\* The indexes of items.slice(i, i + concurrency), for n items
Batch(i, concurrency, n) ==
  { k \in 0 .. n - 1 : i <= k /\ k < i + concurrency }

\* The result a backend returns for item k of a step with task t.
ItemResult(t, k) == [value |-> <<"one", t, k>>, skipped |-> FALSE, error |-> <<>>]

\* The error a backend raises for item k of task t on attempt a, and the
\* error of selectBackend for it (attempt 0).
ItemError(t, k, a) == [kind |-> "Error", msg |-> <<t, a, "item", k>>, origin |-> a]

\* An array as the result of a step.
ArrayResult(seq) == [value |-> <<"array", seq>>, skipped |-> FALSE, error |-> <<>>]

FeStep == Steps[1]
FeId == StepIdAt(1)
FeCount == FeStep.forEach

\* The batch loop of executeStep from the top of the for with i, to its next
\* await or to the return of executeStep: its are the items' executions, res
\* is itemResults, st the StepStatus objects, run the Set running and ev
\* the events so far.
FeLoop(i, its, res, st, run, ev) ==
  /\ feI' = i
  /\ itemResults' = res
  /\ IF i < FeCount
       THEN /\ items' = [k \in DOMAIN its |->
                           IF k \in Batch(i, Concurrency(FeStep, FeCount), FeCount)
                             THEN [phase |-> "select", attempt |-> 0]
                             ELSE its[k]]
            /\ fePc' = "batch"
            /\ stepStatuses' = st
            /\ running' = run
            /\ events' = ev
            /\ UNCHANGED <<completed, failed, results, outcomes>>
       ELSE /\ items' = its
            /\ fePc' = "done"
            /\ running' = run \ {FeId}
            /\ completed' = completed \cup {FeId}
            /\ results' = Put(results, FeId, ArrayResult(res))
            /\ stepStatuses' = MarkDone(st, FeId, "completed", <<>>)
            /\ outcomes' = Put(outcomes, FeId, NoError)
            /\ events' = Emit(ev, "step:complete", FeId)
            /\ UNCHANGED failed

\* processTask(task) for the one-step pipeline: processPipelineDAG to its
\* await of Promise.all(executions), with executeStep run to its first await.
FeProcessTask ==
  /\ pc = "start"
  /\ Len(Steps) = 1
  /\ HasDependencies
  /\ FeStep.forEach # Undefined
  /\ pc' = "await"
  /\ group' = <<FeId>>
  /\ now' = now + 1
  /\ IF IsArray(FeStep.forEach)
       THEN FeLoop(0, [k \in 0 .. FeCount - 1 |-> [phase |-> "idle", attempt |-> 0]],
                   <<>>, <<RunningStatus(FeId, FeStep.task)>>, {FeId},
                   Emit(events, "step:start", FeId))
       ELSE \* throw new Error(...) inside the try block: the catch block
            LET error == ForEachError(FeStep)
                st == <<RunningStatus(FeId, FeStep.task)>>
            IN  /\ items' = <<>>
                /\ feI' = 0
                /\ itemResults' = <<>>
                /\ fePc' = "done"
                /\ running' = {}
                /\ events' = Emit(Emit(events, "step:start", FeId), "step:error", FeId)
                /\ IF IsOptional(FeStep)
                     THEN /\ completed' = completed \cup {FeId}
                          /\ results' = Put(results, FeId, SkippedResult(error.msg))
                          /\ stepStatuses' = MarkDone(st, FeId, "skipped", error.msg)
                          /\ outcomes' = Put(outcomes, FeId, NoError)
                          /\ UNCHANGED failed
                     ELSE /\ failed' = failed \cup {FeId}
                          /\ stepStatuses' = MarkDone(st, FeId, "failed", error.msg)
                          /\ outcomes' = Put(outcomes, FeId, error)
                          /\ UNCHANGED <<completed, results>>
  /\ UNCHANGED <<task, onEvent, stepResults, parallelGroups, attemptOf, seqI,
                 progress, rejection, returned>>

\* The promise of item k's execution rejects with error: Promise.all of its
\* batch rejects with it, unless it has rejected before, and the catch block of
\* executeStep marks the step skipped (optional) or failed. The other items
\* of the batch go on.
ItemGivesUp(k, error) ==
  /\ items' = [items EXCEPT ![k].phase = "rejected"]
  /\ IF fePc = "batch"
       THEN /\ fePc' = "done"
            /\ running' = running \ {FeId}
            /\ events' = Emit(events, "step:error", FeId)
            /\ IF IsOptional(FeStep)
                 THEN /\ completed' = completed \cup {FeId}
                      /\ results' = Put(results, FeId, SkippedResult(error.msg))
                      /\ stepStatuses' = MarkDone(stepStatuses, FeId, "skipped", error.msg)
                      /\ outcomes' = Put(outcomes, FeId, NoError)
                      /\ UNCHANGED failed
                 ELSE /\ failed' = failed \cup {FeId}
                      /\ stepStatuses' = MarkDone(stepStatuses, FeId, "failed", error.msg)
                      /\ outcomes' = Put(outcomes, FeId, ToError(error))
                      /\ UNCHANGED <<completed, results>>
       ELSE UNCHANGED <<fePc, running, completed, failed, results, stepStatuses,
                        outcomes, events>>
  /\ UNCHANGED <<task, onEvent, pc, now, stepResults, parallelGroups, group,
                 attemptOf, seqI, progress, rejection, returned, feI, itemResults>>

\* selectBackend(stepTask) resolves for item k: backend.execute is called.
ItemSelected(k) ==
  /\ items[k].phase = "select"
  /\ items' = [items EXCEPT ![k] = [phase |-> "exec", attempt |-> 1]]
  /\ UNCHANGED <<pipeVars, feI, itemResults, fePc>>

\* selectBackend(stepTask) rejects for item k.
ItemSelectFails(k) ==
  /\ items[k].phase = "select"
  /\ ItemGivesUp(k, ItemError(FeStep.task, k, 0))

\* backend.execute resolves for item k. When it is the last of its batch,
\* Promise.all(batchPromises) resolves: the results are pushed in item order
\* and the loop goes on.
ItemResolves(k) ==
  /\ items[k].phase = "exec"
  /\ LET its == [items EXCEPT ![k].phase = "done"]
         c == Concurrency(FeStep, FeCount)
         batch == Batch(feI, c, FeCount)
     IN  IF fePc = "batch" /\ \A j \in batch : its[j].phase = "done"
           THEN FeLoop(feI + c, its,
                       itemResults \o [q \in 1 .. Cardinality(batch) |->
                                         ItemResult(FeStep.task, feI + q - 1)],
                       stepStatuses, running, events)
           ELSE /\ items' = its
                /\ UNCHANGED <<feI, itemResults, fePc, running, completed, failed,
                               results, stepStatuses, outcomes, events>>
  /\ UNCHANGED <<task, onEvent, pc, now, stepResults, parallelGroups, group,
                 attemptOf, seqI, progress, rejection, returned>>

\* backend.execute rejects for item k: executeWithRetry sleeps before its
\* next attempt, or gives up.
ItemRejects(k) ==
  /\ items[k].phase = "exec"
  /\ IF Retries(RetryOf(FeStep), items[k].attempt)
       THEN /\ items' = [items EXCEPT ![k].phase = "sleep"]
            /\ UNCHANGED <<pipeVars, feI, itemResults, fePc>>
       ELSE ItemGivesUp(k, ItemError(FeStep.task, k, items[k].attempt))

\* The backoff sleep of item k is over: the next attempt.
ItemWakes(k) ==
  /\ items[k].phase = "sleep"
  /\ items' = [items EXCEPT ![k] = [phase |-> "exec", attempt |-> @.attempt + 1]]
  /\ UNCHANGED <<pipeVars, feI, itemResults, fePc>>

InitForEach ==
  /\ LibIdle
  /\ onEvent = FALSE
  /\ WorkerIdle
  /\ IsForEachPipeline(task)
  /\ PipelineFresh
  /\ ForEachIdle
  /\ policy = NoPolicy
  /\ RetryIdle

NextForEach ==
  \/ FeProcessTask /\ UNCHANGED <<retryVars, workerVars, libVars>>
  \/ \E k \in DOMAIN items : ItemSelected(k) /\ UNCHANGED <<retryVars, workerVars, libVars>>
  \/ \E k \in DOMAIN items : ItemSelectFails(k) /\ UNCHANGED <<retryVars, workerVars, libVars>>
  \/ \E k \in DOMAIN items : ItemResolves(k) /\ UNCHANGED <<retryVars, workerVars, libVars>>
  \/ \E k \in DOMAIN items : ItemRejects(k) /\ UNCHANGED <<retryVars, workerVars, libVars>>
  \/ \E k \in DOMAIN items : ItemWakes(k) /\ UNCHANGED <<retryVars, workerVars, libVars>>
  \/ DagResume /\ UNCHANGED <<retryVars, feVars, workerVars, libVars>>
  \/ ProcessTask /\ UNCHANGED <<retryVars, feVars, workerVars, libVars>>
  \/ SeqStepResolves /\ UNCHANGED <<retryVars, feVars, workerVars, libVars>>
  \/ SeqStepRejects /\ UNCHANGED <<retryVars, feVars, workerVars, libVars>>
  \/ SeqStepSelectFails /\ UNCHANGED <<retryVars, feVars, workerVars, libVars>>

SpecForEach == InitForEach /\ [][NextForEach]_vars

InitPipeline ==
  /\ LibIdle
  /\ onEvent = FALSE
  /\ WorkerIdle
  /\ IsPipeline(task)
  /\ PipelineFresh
  /\ policy = NoPolicy
  /\ RetryIdle
  /\ ForEachIdle

NextPipeline ==
  \/ ProcessTask /\ UNCHANGED <<retryVars, feVars, workerVars, libVars>>
  \/ \E id \in running : DagStepResolves(id) /\ UNCHANGED <<retryVars, feVars, workerVars, libVars>>
  \/ \E id \in running : DagStepRejects(id) /\ UNCHANGED <<retryVars, feVars, workerVars, libVars>>
  \/ \E id \in running : DagStepSelectFails(id) /\ UNCHANGED <<retryVars, feVars, workerVars, libVars>>
  \/ SeqStepSelectFails /\ UNCHANGED <<retryVars, feVars, workerVars, libVars>>
  \/ DagResume /\ UNCHANGED <<retryVars, feVars, workerVars, libVars>>
  \/ SeqStepResolves /\ UNCHANGED <<retryVars, feVars, workerVars, libVars>>
  \/ SeqStepRejects /\ UNCHANGED <<retryVars, feVars, workerVars, libVars>>

SpecPipeline == InitPipeline /\ [][NextPipeline]_vars

-----------------------------------------------------------------------------
(* processPipelineDAG on every steps array: ids are not validated, so two    *)
(* steps can have the same id, and dependsOn can name a step that depends   *)
(* on it in turn, the step itself, or no step at all                        *)

\* The largest number of steps of such a pipeline.
MaxDagSteps == 2

\* The ids a step can have (or none), and what its dependsOn can be.
DagIds == {"a", "b", NoId}
DagDependsOn == {{}, {"a"}, {"b"}, {MissingId}}

\* Whether t is such a pipeline: any ids, any dependsOn, at most one step
\* optional (step opt, or none with opt = 0), and no retry policy.
IsDagPipeline(t) ==
  \E n \in 1 .. MaxDagSteps :
    \E ids \in [1 .. n -> DagIds], deps \in [1 .. n -> DagDependsOn],
       opt \in 0 .. n :
      t = [steps |-> [i \in 1 .. n |->
                        [id |-> ids[i], task |-> TaskNames[i],
                         dependsOn |-> deps[i], optional |-> (i = opt),
                         forEach |-> Undefined,
                         forEachConcurrency |-> Undefined]],
           retry |-> NoPolicy]

InitScheduler ==
  /\ LibIdle
  /\ onEvent = FALSE
  /\ WorkerIdle
  /\ \/ IsDagPipeline(task)
     \/ /\ IsForEachPipeline(task)
        /\ FeStep.forEachConcurrency # 0
        /\ ~FeStep.optional
  /\ HasDependencies
  /\ PipelineFresh
  /\ ForEachIdle
  /\ policy = NoPolicy
  /\ RetryIdle

NextScheduler ==
  \/ ProcessTask /\ UNCHANGED <<retryVars, feVars, workerVars, libVars>>
  \/ FeProcessTask /\ UNCHANGED <<retryVars, workerVars, libVars>>
  \/ \E id \in DOMAIN attemptOf : DagStepResolves(id) /\ UNCHANGED <<retryVars, feVars, workerVars, libVars>>
  \/ \E id \in DOMAIN attemptOf : DagStepRejects(id) /\ UNCHANGED <<retryVars, feVars, workerVars, libVars>>
  \/ \E id \in DOMAIN attemptOf : DagStepSelectFails(id) /\ UNCHANGED <<retryVars, feVars, workerVars, libVars>>
  \/ \E k \in DOMAIN items : ItemSelected(k) /\ UNCHANGED <<retryVars, workerVars, libVars>>
  \/ \E k \in DOMAIN items : ItemSelectFails(k) /\ UNCHANGED <<retryVars, workerVars, libVars>>
  \/ \E k \in DOMAIN items : ItemResolves(k) /\ UNCHANGED <<retryVars, workerVars, libVars>>
  \/ \E k \in DOMAIN items : ItemRejects(k) /\ UNCHANGED <<retryVars, workerVars, libVars>>
  \/ \E k \in DOMAIN items : ItemWakes(k) /\ UNCHANGED <<retryVars, workerVars, libVars>>
  \/ DagResume /\ UNCHANGED <<retryVars, feVars, workerVars, libVars>>

\* Every backend call, every selectBackend and every retry wait terminates,
\* and the event loop runs what is ready: a step that can be taken is taken.
SpecScheduler == InitScheduler /\ [][NextScheduler]_vars /\ WF_vars(NextScheduler)

-----------------------------------------------------------------------------
(* processTask with the callback onEvent *)

\* The largest number of steps of a pipeline that is run with onEvent.
MaxEventSteps == 2

\* Whether t is a pipeline of at most MaxEventSteps steps, as in IsPipeline.
IsEventPipeline(t) ==
  \E n \in 1 .. MaxEventSteps, extra \in 0 .. MaxStepAttempts - 1, withIds \in BOOLEAN :
    \E c \in Choices(SlotCount(n, withIds), MaxFeatures - extra) :
      t = [steps |-> StepsOf(n, c, withIds), retry |-> StepPolicy(extra)]

InitEvents ==
  /\ LibIdle
  /\ WorkerIdle
  /\ onEvent = TRUE
  /\ IsEventPipeline(task) \/ IsForEachPipeline(task)
  /\ PipelineFresh
  /\ ForEachIdle
  /\ policy = NoPolicy
  /\ RetryIdle

NextEvents ==
  \/ ProcessTask /\ UNCHANGED <<retryVars, feVars, workerVars, libVars>>
  \/ FeProcessTask /\ UNCHANGED <<retryVars, workerVars, libVars>>
  \/ \E id \in DOMAIN attemptOf \cap running : DagStepResolves(id) /\ UNCHANGED <<retryVars, feVars, workerVars, libVars>>
  \/ \E id \in DOMAIN attemptOf \cap running : DagStepRejects(id) /\ UNCHANGED <<retryVars, feVars, workerVars, libVars>>
  \/ \E id \in DOMAIN attemptOf \cap running : DagStepSelectFails(id) /\ UNCHANGED <<retryVars, feVars, workerVars, libVars>>
  \/ \E k \in DOMAIN items : ItemSelected(k) /\ UNCHANGED <<retryVars, workerVars, libVars>>
  \/ \E k \in DOMAIN items : ItemSelectFails(k) /\ UNCHANGED <<retryVars, workerVars, libVars>>
  \/ \E k \in DOMAIN items : ItemResolves(k) /\ UNCHANGED <<retryVars, workerVars, libVars>>
  \/ \E k \in DOMAIN items : ItemRejects(k) /\ UNCHANGED <<retryVars, workerVars, libVars>>
  \/ \E k \in DOMAIN items : ItemWakes(k) /\ UNCHANGED <<retryVars, workerVars, libVars>>
  \/ DagResume /\ UNCHANGED <<retryVars, feVars, workerVars, libVars>>
  \/ SeqStepResolves /\ UNCHANGED <<retryVars, feVars, workerVars, libVars>>
  \/ SeqStepRejects /\ UNCHANGED <<retryVars, feVars, workerVars, libVars>>
  \/ SeqStepSelectFails /\ UNCHANGED <<retryVars, feVars, workerVars, libVars>>

SpecEvents == InitEvents /\ [][NextEvents]_vars

InitRetry ==
  /\ LibIdle
  /\ WorkerIdle
  /\ policy \in Policies
  /\ RetryIdle
  /\ PipelineIdle
  /\ ForEachIdle

NextRetry ==
  \/ RetryCall /\ UNCHANGED <<pipeVars, feVars, workerVars, libVars>>
  \/ ExecutorResolves /\ UNCHANGED <<pipeVars, feVars, workerVars, libVars>>
  \/ ExecutorRejects /\ UNCHANGED <<pipeVars, feVars, workerVars, libVars>>
  \/ SleepOver /\ UNCHANGED <<pipeVars, feVars, workerVars, libVars>>

SpecRetry == InitRetry /\ [][NextRetry]_vars

-----------------------------------------------------------------------------
(* processTask: the choice of the path, and the single-task path with       *)
(* selectBackend of @dwa/core                                                *)

\* The largest number of steps of a task given to the dispatcher.
MaxDispatchSteps == 2

\* The names backends are registered under.
BackendNames == {"modal", "ray"}

\* The steps of a task given to the dispatcher: id and dependsOn are absent,
\* empty or not empty.
DispatchSteps ==
  [id : {None, Some(""), Some("a")},
   dependsOn : {None, Some(<<>>), Some(<<"a">>)}]

RECURSIVE StepLists(_)
\* The arrays of at most n steps.
StepLists(n) ==
  IF n = 0 THEN {<<>>}
  ELSE LET shorter == StepLists(n - 1) IN
       shorter \cup { Append(l, st) : l \in { x \in shorter : Len(x) = n - 1 },
                                      st \in DispatchSteps }

\* Whether t with task.retry = r is a task of the model: a single task with any
\* backend hint and policy, or a pipeline, of which the dispatcher reads the
\* steps only.
IsCall(t, r) ==
  \E st \in {None} \cup { Some(l) : l \in StepLists(MaxDispatchSteps) },
     b \in {None, Some("auto")} \cup { Some(x) : x \in BackendNames },
     extra \in 0 .. MaxStepAttempts - 1 :
    /\ (st # None /\ st # Some(<<>>)) => b = None /\ extra = 0
    /\ t = [steps |-> st, backend |-> b]
    /\ r = StepPolicy(extra)

\* The test on presence only: an empty steps array is a pipeline.
StepsPresent(t) == t.steps # None

\* task.steps?.length
HasSteps(t) == t.steps # None /\ Len(t.steps[1]) > 0

\* s.dependsOn?.length || s.id
NamesDependency(s) ==
  \/ s.dependsOn # None /\ Len(s.dependsOn[1]) > 0
  \/ s.id # None /\ s.id[1] # ""

\* task.steps.some((s) => s.dependsOn?.length || s.id)
SomeStepNamesDependency(t) ==
  \E i \in 1 .. Len(t.steps[1]) : NamesDependency(t.steps[1][i])

\* The errors of selectBackend.
SelectError(why) == [kind |-> "Error", msg |-> why, origin |-> 0]

\* registerBackend(backend): the registry is a mapping that keeps insertion
\* order; a name registered again keeps its place.
RegisterBackend(b) ==
  /\ dPc = "start"
  /\ Len(registry) < Cardinality(BackendNames)
  /\ registry' = IF b \in Range(registry) THEN registry ELSE Append(registry, b)
  /\ UNCHANGED <<health, call, dPc, path, target, probes, selected, selects,
                 progressCalls, dRejection>>

\* clearBackends()
ClearBackends ==
  /\ dPc = "start"
  /\ registry # <<>>
  /\ registry' = <<>>
  /\ UNCHANGED <<health, call, dPc, path, target, probes, selected, selects,
                 progressCalls, dRejection>>

\* A backend becomes healthy or unhealthy. Nothing reads the health of a
\* backend after the selection.
HealthChanges(b) ==
  /\ dPc \in {"start", "probe"}
  /\ health' = IF b \in health THEN health \ {b} ELSE health \cup {b}
  /\ UNCHANGED <<registry, call, dPc, path, target, probes, selected, selects,
                 progressCalls, dRejection>>

\* The place of name b in the registry, or 0.
PlaceOf(b) ==
  IF b \in Range(registry)
    THEN CHOOSE k \in 1 .. Len(registry) : registry[k] = b
    ELSE 0

\* The registry read from its end.
LastRegistered == Len(registry)

\* The first entry of the iteration over the registry.
FirstRegistered == 1

\* selectBackend(task) to its first await, or to its throw.
SelectBackend(t) ==
  /\ selects' = selects + 1
  /\ IF t.backend # None /\ t.backend # Some("auto")
       THEN IF PlaceOf(t.backend[1]) = 0
              THEN /\ dPc' = "rejected"
                   /\ dRejection' = SelectError("not found")
                   /\ UNCHANGED target
              ELSE /\ dPc' = "probe"
                   /\ target' = PlaceOf(t.backend[1])
                   /\ UNCHANGED dRejection
       ELSE IF registry = <<>>
              THEN /\ dPc' = "rejected"
                   /\ dRejection' = SelectError("no healthy backend")
                   /\ UNCHANGED target
              ELSE /\ dPc' = "probe"
                   /\ target' = FirstRegistered
                   /\ UNCHANGED dRejection

\* processTask(task, onProgress) as the worker calls it, without chunkConfig:
\* the choice of the path; a pipeline goes on in processPipelineDAG or
\* processPipelineSequential, a single task in selectBackend.
Dispatch ==
  /\ dPc = "start"
  /\ IF HasSteps(call)
       THEN /\ path' = IF SomeStepNamesDependency(call) THEN "dag" ELSE "sequential"
            /\ dPc' = "pipeline"
            /\ UNCHANGED <<target, selects, dRejection>>
       ELSE /\ path' = "single"
            /\ SelectBackend(call)
  /\ UNCHANGED <<registry, health, call, probes, selected, progressCalls>>

\* What selectBackend does when the probe of the backend at target returns
\* ok: it returns the backend, probes the next one or throws.
ProbeVerdict(t, ok) ==
  IF ok THEN "return"
  ELSE IF t.backend # None /\ t.backend # Some("auto") THEN "not healthy"
  ELSE IF target < Len(registry) THEN "next"
  ELSE "no healthy backend"

\* const backend = await selectBackend(task): isHealthy() of the probed
\* backend returns and selectBackend goes on. When it returns a backend,
\* processTask calls executeWithRetry(task, () => backend.execute(task)); when
\* it throws, processTask rejects with that error.
ProbeReturns ==
  /\ dPc = "probe"
  /\ LET name == registry[target]
         ok == name \in health
         verdict == ProbeVerdict(call, ok)
     IN  /\ probes' = Append(probes, [name |-> name, ok |-> ok])
         /\ IF verdict = "return"
              THEN /\ selected' = name
                   /\ dPc' = "execute"
                   /\ RetryCall
                   /\ UNCHANGED <<target, dRejection>>
              ELSE /\ UNCHANGED <<selected, retryVars>>
                   /\ IF verdict = "next"
                        THEN /\ target' = target + 1
                             /\ UNCHANGED <<dPc, dRejection>>
                        ELSE /\ dPc' = "rejected"
                             /\ dRejection' = SelectError(verdict)
                             /\ UNCHANGED target
  /\ UNCHANGED <<registry, health, call, path, selects, progressCalls>>

InitDispatch ==
  /\ TemplateIdle
  /\ StatusIdle
  /\ TierIdle
  /\ IsCall(call, policy)
  /\ health \in SUBSET BackendNames
  /\ DispatchFresh
  /\ RetryIdle
  /\ PipelineIdle
  /\ ForEachIdle
  /\ WorkerIdle

NextDispatch ==
  \/ \E b \in BackendNames : RegisterBackend(b) /\ UNCHANGED <<retryVars, pipeVars, feVars, workerVars, tplVars, statVars, tierVars>>
  \/ ClearBackends /\ UNCHANGED <<retryVars, pipeVars, feVars, workerVars, tplVars, statVars, tierVars>>
  \/ \E b \in BackendNames : HealthChanges(b) /\ UNCHANGED <<retryVars, pipeVars, feVars, workerVars, tplVars, statVars, tierVars>>
  \/ Dispatch /\ UNCHANGED <<retryVars, pipeVars, feVars, workerVars, tplVars, statVars, tierVars>>
  \/ ProbeReturns /\ UNCHANGED <<pipeVars, feVars, workerVars, tplVars, statVars, tierVars>>
  \/ ExecutorResolves /\ UNCHANGED <<pipeVars, feVars, workerVars, libVars>>
  \/ ExecutorRejects /\ UNCHANGED <<pipeVars, feVars, workerVars, libVars>>
  \/ SleepOver /\ UNCHANGED <<pipeVars, feVars, workerVars, libVars>>

SpecDispatch == InitDispatch /\ [][NextDispatch]_vars

-----------------------------------------------------------------------------
(* runEffects, enqueueTask and the worker processor *)

\* The largest number of effects in a list.
MaxEffects == 3

\* The largest number of handler calls and progress reports a job can come
\* to, the onProgress effects counted once for each report.
MaxWork == 4

\* The largest number of progress reports of processTask.
MaxTicks == 2

\* effect.$event: an effect with a handler, whose fetch can fail, and an
\* effect type that handlers does not have.
Events == {"webhook", "nope"}

\* const handler = handlers[effect.$event]; if (handler)
HasHandler(effect) == effect = "webhook"

\* The lists of at most n effects.
EffectLists(n) == UNION { [1 .. k -> Events] : k \in 0 .. n }

\* The values processTask reports: processPipelineSequential reports
\* round(i / n * 100) before step i, processPipelineDAG (here a chain of n
\* steps) round(|completed| / n * 100) after each group; a single task
\* reports nothing.
ProgressScripts ==
  { [i \in 1 .. n |-> RoundPercent(i - 1, n)] : n \in 0 .. MaxTicks }
    \cup { [i \in 1 .. n |-> RoundPercent(i, n)] : n \in 1 .. MaxTicks }

\* The jobs: effect lists and progress reports within MaxWork.
IsJob(j) ==
  \E a \in EffectLists(MaxEffects), b \in EffectLists(MaxEffects),
     c \in EffectLists(MaxEffects), d \in EffectLists(MaxEffects),
     r \in ProgressScripts :
    /\ Len(a) + Len(b) * (IF Len(r) > 1 THEN Len(r) ELSE 1) + Len(c) + Len(d) + Len(r)
         <= MaxWork
    /\ j = [onPending |-> a, onProgress |-> b, onSuccess |-> c, onError |-> d,
            reports |-> r]

\* What processTask can reject with: an Error or any other value.
TaskErrors ==
  { [kind |-> "Error", msg |-> "boom", origin |-> 1],
    [kind |-> "string", msg |-> "bang", origin |-> 1] }

\* What a handler rejects with.
EffectError == [kind |-> "Error", msg |-> "effect", origin |-> 2]

\* error instanceof Error ? error.message : String(error)
ErrorMessage(error) == error.msg

\* An EffectContext: { task, jobId, result, error, progress }
Context(result, error, prog) == [result |-> result, error |-> error, progress |-> prog]

\* The handlers called without await.
AwaitsNothing(k) == FALSE

\* await handler(effect, context): the loop stops until handler k settles.
AwaitsHandler(k) == TRUE

\* The error thrown anew as an Error object.
RethrownAsError(error) == ToError(error)

\* throw error, in the catch block of the processor
Rethrown(error) == error

\* for (const effect of effects): the effect after the k-th
NextEffect(k) == k + 1

\* The loop without its try/catch: a handler's error leaves the loop.
AfterHandlerUncaught(how) == IF how = "raise" THEN "throw" ELSE "continue"

\* try { await handler(effect, context) } catch (error) { console.error(...) }
AfterHandler(how) == IF how = "raise" THEN "continue" ELSE "continue"

RECURSIVE EffectLoop(_, _)
\* The for loop of runEffects from effect k to its next await, or to its
\* end: an effect without handler is warned about and passed over.
EffectLoop(r, k) ==
  IF k > Len(r.list) THEN [r EXCEPT !.status = "resolved"]
  ELSE IF HasHandler(r.list[k])
    THEN IF AwaitsHandler(k)
           THEN [r EXCEPT !.ph[k] = "call"]
           ELSE EffectLoop([r EXCEPT !.ph[k] = "call"], NextEffect(k))
  ELSE EffectLoop([r EXCEPT !.ph[k] = "unknown"], NextEffect(k))

\* runEffects(effects, context), run to its first await.
RunEffects(effects, context) ==
  EffectLoop([list |-> effects, ph |-> [k \in 1 .. Len(effects) |-> "idle"],
              status |-> "running", ctx |-> context], 1)

\* The ids of the calls of runEffects.
PendingRun == <<"onPending", 0>>
SuccessRun == <<"onSuccess", 0>>
ErrorRun == <<"onError", 0>>
ProgressRun(n) == <<"onProgress", n>>

\* if (list?.length) runEffects(list, context): the calls of runEffects after
\* that statement, for the call id.
WithRun(id, list, context) ==
  IF Len(list) > 0 THEN Put(runs, id, RunEffects(list, context)) ELSE runs

\* The call id of runEffects not awaited.
RunNotAwaited(id) == id \in DOMAIN runs => runs[id].status # "never"

\* Whether the call id of runEffects is over (or was never made).
RunOver(id) == id \in DOMAIN runs => runs[id].status # "running"

\* The handler of effect k of call id settles: it resolves ("ok") or rejects
\* ("raise"); runEffects goes on to its next await or to its end.
HandlerSettles(id, k, how) ==
  /\ id \in DOMAIN runs
  /\ k \in DOMAIN runs[id].ph
  /\ runs[id].ph[k] = "call"
  /\ LET r == [runs[id] EXCEPT !.ph[k] = how]
     IN  runs' = [runs EXCEPT ![id] =
                    IF r.status # "running" THEN r
                    ELSE IF AfterHandler(how) = "throw"
                      THEN [r EXCEPT !.status = "rejected"]
                      ELSE EffectLoop(r, NextEffect(k))]
  /\ UNCHANGED <<job, ePc, wPc, jobProgress, updates, ticks, outcome, caught, reported>>

\* enqueueTask(task): queue.add is called, and the broker has the job.
EnqueueTask ==
  /\ ePc = "start"
  /\ ePc' = "added"
  /\ wPc' = "waiting"
  /\ UNCHANGED <<job, runs, jobProgress, updates, ticks, outcome, caught, reported>>

\* await queue.add resumes: the onPending effects are run, if there are any.
EnqueueResumes ==
  /\ ePc = "added"
  /\ runs' = WithRun(PendingRun, job.onPending, Context(NoValue, "", Undefined))
  /\ ePc' = IF Len(job.onPending) > 0 THEN "pending" ELSE "resolved"
  /\ UNCHANGED <<job, wPc, jobProgress, updates, ticks, outcome, caught, reported>>

\* await runEffects(task.onPending, ...) resumes: return job.id
EnqueueReturns ==
  /\ ePc = "pending"
  /\ RunOver(PendingRun)
  /\ ePc' = IF runs[PendingRun].status = "rejected" THEN "rejected" ELSE "resolved"
  /\ UNCHANGED <<job, wPc, runs, jobProgress, updates, ticks, outcome, caught, reported>>

\* A worker picks the job up: the processor is called and awaits
\* job.updateProgress(0).
PickUp ==
  /\ wPc = "waiting"
  /\ wPc' = "p0"
  /\ UNCHANGED <<job, ePc, runs, jobProgress, updates, ticks, outcome, caught, reported>>

\* await job.updateProgress(0) resumes: processTask is called.
ProgressZero ==
  /\ wPc = "p0"
  /\ jobProgress' = 0
  /\ wPc' = "task"
  /\ UNCHANGED <<job, ePc, runs, updates, ticks, outcome, caught, reported>>

\* processTask calls its progress callback: job.updateProgress(progress) and
\* runEffects(task.onProgress, ...) are called, and neither is awaited.
ProgressTick ==
  /\ wPc = "task"
  /\ ticks < Len(job.reports)
  /\ ticks' = ticks + 1
  /\ updates' = updates \cup {job.reports[ticks + 1]}
  /\ runs' = WithRun(ProgressRun(ticks + 1), job.onProgress,
                     Context(NoValue, "", job.reports[ticks + 1]))
  /\ UNCHANGED <<job, ePc, wPc, jobProgress, outcome, caught, reported>>

\* The broker applies a job.updateProgress(v) that nothing awaits.
UpdateApplied(v) ==
  /\ v \in updates
  /\ updates' = updates \ {v}
  /\ jobProgress' = v
  /\ UNCHANGED <<job, ePc, wPc, runs, ticks, outcome, caught, reported>>

\* The catch block of the processor with error, to its await or its throw.
Catch(error) ==
  /\ caught' = error
  /\ runs' = WithRun(ErrorRun, job.onError, Context(NoValue, ErrorMessage(error), Undefined))
  /\ IF Len(job.onError) > 0
       THEN /\ wPc' = "error"
            /\ UNCHANGED reported
       ELSE /\ wPc' = "thrown"
            /\ reported' = Rethrown(error)

\* processTask resolves: the processor awaits job.updateProgress(100).
TaskResolves ==
  /\ wPc = "task"
  /\ ticks = Len(job.reports)
  /\ outcome' = Result(1)
  /\ wPc' = "p100"
  /\ UNCHANGED <<job, ePc, runs, jobProgress, updates, ticks, caught, reported>>

\* processTask rejects with error.
TaskRejects(error) ==
  /\ wPc = "task"
  /\ outcome' = error
  /\ Catch(error)
  /\ UNCHANGED <<job, ePc, jobProgress, updates, ticks>>

\* await job.updateProgress(100) resumes: the onSuccess effects are run, if
\* there are any, or the result is returned.
ProgressHundred ==
  /\ wPc = "p100"
  /\ jobProgress' = 100
  /\ runs' = WithRun(SuccessRun, job.onSuccess, Context(outcome, "", Undefined))
  /\ IF Len(job.onSuccess) > 0
       THEN /\ wPc' = "success"
            /\ UNCHANGED reported
       ELSE /\ wPc' = "returned"
            /\ reported' = outcome
  /\ UNCHANGED <<job, ePc, updates, ticks, outcome, caught>>

\* await runEffects(task.onSuccess, ...) resumes: return result, or the catch
\* block when it rejected.
SuccessEffectsOver ==
  /\ wPc = "success"
  /\ RunOver(SuccessRun)
  /\ IF runs[SuccessRun].status = "rejected"
       THEN Catch(EffectError)
       ELSE /\ wPc' = "returned"
            /\ reported' = outcome
            /\ UNCHANGED <<runs, caught>>
  /\ UNCHANGED <<job, ePc, jobProgress, updates, ticks, outcome>>

\* await runEffects(task.onError, ...) resumes: throw error
ErrorEffectsOver ==
  /\ wPc = "error"
  /\ RunOver(ErrorRun)
  /\ wPc' = "thrown"
  /\ reported' = IF runs[ErrorRun].status = "rejected" THEN EffectError ELSE Rethrown(caught)
  /\ UNCHANGED <<job, ePc, runs, jobProgress, updates, ticks, outcome, caught>>

-----------------------------------------------------------------------------
(* enqueueTask's job options, and the broker calling the processor again    *)
(* after it threw, while attempts are left                                  *)

\* attempts: task.retry?.attempts || 3
DefaultAttempts == 3

\* delay: task.retry.delay || 1000
DefaultQueueDelay == 1000

\* task.retry?.attempts || 3
OuterAttempts(retry) ==
  IF retry.attempts = Undefined \/ retry.attempts = 0
    THEN DefaultAttempts
    ELSE retry.attempts

\* The jobOptions of enqueueTask for task.retry = retry (NoPolicy: absent):
\* attempts, and backoff by the test of task.retry?.backoff
JobOptions(retry) ==
  [attempts |-> OuterAttempts(retry),
   backoff |->
     [type |-> IF retry.backoff = "exponential" THEN "exponential" ELSE "fixed",
      delay |-> IF retry.delay = Undefined \/ retry.delay = 0
                  THEN DefaultQueueDelay
                  ELSE retry.delay]]

\* The jobs of the queue tier: no onPending and onProgress effects, at most
\* one onSuccess and one onError effect, no progress report.
IsQueuedJob(j) ==
  \E c \in EffectLists(1), d \in EffectLists(1) :
    j = [onPending |-> <<>>, onProgress |-> <<>>, onSuccess |-> c, onError |-> d,
         reports |-> <<>>]

\* task.retry of an enqueued task: absent, or a policy with attempts >= 1.
QueuePolicies ==
  { r \in Policies : r = NoPolicy \/ (r.attempts # Undefined /\ r.attempts >= 1) }

\* One more call of runEffects with the onError list when the processor has
\* come to await it in this step, and likewise for the onSuccess list.
CountRuns ==
  effectRuns' =
    [onError |-> effectRuns.onError + (IF wPc # "error" /\ wPc' = "error" THEN 1 ELSE 0),
     onSuccess |-> effectRuns.onSuccess + (IF wPc # "success" /\ wPc' = "success" THEN 1 ELSE 0)]

\* enqueueTask(task) to its await of queue.add(task.type, task, jobOptions)
QueueAdd ==
  /\ EnqueueTask
  /\ jobOptions' = JobOptions(policy)
  /\ UNCHANGED <<executions, effectRuns>>

\* A worker picks the job up: one more call of the processor.
QueuePickUp ==
  /\ PickUp
  /\ executions' = executions + 1
  /\ UNCHANGED <<jobOptions, effectRuns>>

\* The processor threw (throw error, at the end of its catch block) and the
\* job has attempts left: the broker puts it back, and a worker will call the
\* processor again with the same job.
BrokerRetries ==
  /\ wPc = "thrown"
  /\ executions < jobOptions.attempts
  /\ wPc' = "waiting"
  /\ outcome' = NoValue
  /\ caught' = NoValue
  /\ reported' = NoValue
  /\ UNCHANGED <<job, ePc, runs, jobProgress, updates, ticks, queueVars>>

\* The rest of the system, which the queue tier leaves alone.
aside == <<retryVars, pipeVars, feVars, dispVars, tplVars, statVars, laneVars, splitVars>>

InitQueue ==
  /\ DispatchIdle /\ TemplateIdle /\ StatusIdle
  /\ QueueIdle /\ LanesIdle /\ SplitIdle
  /\ IsQueuedJob(job)
  /\ WorkerFresh
  /\ PipelineIdle
  /\ ForEachIdle
  /\ policy \in QueuePolicies
  /\ RetryIdle

NextQueue ==
  \/ QueueAdd /\ UNCHANGED aside
  \/ EnqueueResumes /\ UNCHANGED <<aside, queueVars>>
  \/ QueuePickUp /\ UNCHANGED aside
  \/ ProgressZero /\ UNCHANGED <<aside, queueVars>>
  \/ TaskResolves /\ UNCHANGED <<aside, queueVars>>
  \/ \E error \in TaskErrors : TaskRejects(error) /\ CountRuns /\ UNCHANGED <<aside, jobOptions, executions>>
  \/ ProgressHundred /\ CountRuns /\ UNCHANGED <<aside, jobOptions, executions>>
  \/ SuccessEffectsOver /\ CountRuns /\ UNCHANGED <<aside, jobOptions, executions>>
  \/ ErrorEffectsOver /\ UNCHANGED <<aside, queueVars>>
  \/ \E id \in DOMAIN runs : \E k \in DOMAIN runs[id].ph : \E how \in {"ok", "raise"} :
       HandlerSettles(id, k, how) /\ UNCHANGED <<aside, queueVars>>
  \/ BrokerRetries /\ UNCHANGED aside

SpecQueue == InitQueue /\ [][NextQueue]_vars

InitWorker ==
  /\ LibIdle
  /\ IsJob(job)
  /\ WorkerFresh
  /\ PipelineIdle
  /\ ForEachIdle
  /\ policy = NoPolicy
  /\ RetryIdle

NextWorker ==
  \/ EnqueueTask /\ UNCHANGED <<retryVars, pipeVars, feVars, libVars>>
  \/ EnqueueResumes /\ UNCHANGED <<retryVars, pipeVars, feVars, libVars>>
  \/ EnqueueReturns /\ UNCHANGED <<retryVars, pipeVars, feVars, libVars>>
  \/ PickUp /\ UNCHANGED <<retryVars, pipeVars, feVars, libVars>>
  \/ ProgressZero /\ UNCHANGED <<retryVars, pipeVars, feVars, libVars>>
  \/ ProgressTick /\ UNCHANGED <<retryVars, pipeVars, feVars, libVars>>
  \/ \E v \in updates : UpdateApplied(v) /\ UNCHANGED <<retryVars, pipeVars, feVars, libVars>>
  \/ TaskResolves /\ UNCHANGED <<retryVars, pipeVars, feVars, libVars>>
  \/ \E error \in TaskErrors : TaskRejects(error) /\ UNCHANGED <<retryVars, pipeVars, feVars, libVars>>
  \/ ProgressHundred /\ UNCHANGED <<retryVars, pipeVars, feVars, libVars>>
  \/ SuccessEffectsOver /\ UNCHANGED <<retryVars, pipeVars, feVars, libVars>>
  \/ ErrorEffectsOver /\ UNCHANGED <<retryVars, pipeVars, feVars, libVars>>
  \/ \E id \in DOMAIN runs : \E k \in DOMAIN runs[id].ph : \E how \in {"ok", "raise"} :
       HandlerSettles(id, k, how) /\ UNCHANGED <<retryVars, pipeVars, feVars, libVars>>

SpecWorker == InitWorker /\ [][NextWorker]_vars

-----------------------------------------------------------------------------
(* resolveTemplates, resolveTemplate and getNestedValue of the dispatcher,  *)
(* interpolate of the effects                                                *)

\* JavaScript values, each with its type: v holds nothing, the number, the
\* string, the elements or the properties.
Undef == [t |-> "undefined", v |-> <<>>]
Null == [t |-> "null", v |-> <<>>]
Num(n) == [t |-> "number", v |-> <<n>>]
Str(s) == [t |-> "string", v |-> s]
Arr(a) == [t |-> "array", v |-> a]
Obj(f) == [t |-> "object", v |-> f]

\* A string is the sequence of its pieces: "{{", "}}", ".", " ", "," and
\* words, each a run of word characters (\w+) that is not split further.
Open == "{{"
Close == "}}"
Dot == "."
Space == " "
Comma == ","
IsWord(tok) == tok \notin {Open, Close, Dot, Space, Comma, "[object Object]"}

\* The decimal numerals of the array indices and numbers of the model.
Numerals == <<"0", "1", "2", "3", "4", "5", "6", "7", "8", "9">>

\* The largest number of segments of a path.
MaxPath == 3

\* The words a path is made of.
Segments == {"payload", "steps", "0", "step_0", "a", "data", "result"}

RECURSIVE Paths(_)
\* The paths of at most n segments, none empty.
Paths(n) ==
  IF n = 1 THEN { <<w>> : w \in Segments }
  ELSE LET shorter == Paths(n - 1) IN
       shorter \cup { Append(q, w) : q \in { x \in shorter : Len(x) = n - 1 },
                                     w \in Segments }

RECURSIVE Dotted(_)
\* The segments of a path joined by dots.
Dotted(q) ==
  IF Len(q) = 1 THEN <<q[1]>> ELSE Dotted(SubSeq(q, 1, Len(q) - 1)) \o <<Dot, q[Len(q)]>>

\* "{{path}}"
Ref(q) == <<Open>> \o Dotted(q) \o <<Close>>

\* The shapes of the strings of the model.
Shapes ==
  {"whole", "spaced", "prefixed", "suffixed", "between", "plain", "unclosed", "nested"}

\* The string of a recipe: one template alone, with or without spaces inside
\* the braces, a template after or before other text, two templates with text
\* between them, text without braces, and a template that is not closed.
Build(r) ==
  CASE r.shape \in {"whole", "nested"} -> Ref(r.path)
    [] r.shape = "spaced" -> <<Open, Space>> \o Dotted(r.path) \o <<Space, Close>>
    [] r.shape = "prefixed" -> <<"see", Space>> \o Ref(r.path)
    [] r.shape = "suffixed" -> Ref(r.path) \o <<Space, "seen">>
    [] r.shape = "between" -> Ref(r.path) \o <<Space, "and", Space>> \o Ref(<<"result">>)
    [] r.shape = "plain" -> Dotted(r.path)
    [] r.shape = "unclosed" -> <<Open>> \o Dotted(r.path)

\* The value of the input field of a recipe: the string, or for "nested" an
\* array that holds the string.
Field(r) == IF r.shape = "nested" THEN Arr(<<Str(Build(r))>>) ELSE Str(Build(r))

\* The results of steps: objects with a number, an array, an object or null
\* in a field, a string, and the result of a skipped step.
StepValues ==
  <<Obj([k \in {"data"} |-> Num(7)]),
    Obj([k \in {"data"} |-> Arr(<<Num(7), Str(<<"x">>)>>)]),
    Obj([k \in {"data", "result"} |-> IF k = "data" THEN Obj([j \in {"a"} |-> Null])
                                      ELSE Num(0)]),
    Str(<<"x">>),
    Obj([k \in {"error", "skipped"} |-> Str(<<"boom">>)])>>

\* task.payload
Payload == Obj([k \in {"data"} |-> Str(<<"u">>)])

\* const context = { payload: task.payload, steps: stepResults } of
\* processPipelineSequential, with stepResults the array of the results so far
SeqContext(res) ==
  Obj([k \in {"payload", "steps"} |-> IF k = "payload" THEN Payload ELSE Arr(res)])

\* const context = { payload: task.payload, steps: results } of
\* processPipelineDAG, with results the record id -> result
DagContext(res) ==
  Obj([k \in {"payload", "steps"} |-> IF k = "payload" THEN Payload ELSE Obj(res)])

\* { task, result } given to runEffects
EffectContext(res) ==
  Obj([k \in {"task", "result"} |->
         IF k = "task" THEN Obj([j \in {"payload"} |-> Payload]) ELSE res])

\* Whether c is a context of kind kd of the model: a sequential one after two
\* steps, a DAG one after step "a", or one of an effect, with or without a
\* result.
IsContext(c, kd) ==
  \E x \in 1 .. Len(StepValues) :
    \/ /\ kd = "sequential"
       /\ c = SeqContext(<<StepValues[x], StepValues[(x % Len(StepValues)) + 1]>>)
    \/ /\ kd = "dag"
       /\ c = DagContext([k \in {"a"} |-> StepValues[x]])
    \/ /\ kd = "effect"
       /\ c = EffectContext(StepValues[x])
    \/ /\ kd = "effect" /\ x = 1
       /\ c = EffectContext(Undef)

\* typeof of a language where an array is not an object.
TypeOfMapping(value) ==
  IF value.t \in {"object", "null"} THEN "object" ELSE value.t

\* typeof value
TypeOf(value) ==
  IF value.t \in {"object", "array", "null"} THEN "object" ELSE value.t

\* The index a property name denotes, or Undefined: the name is a numeral.
IndexOf(part) ==
  IF \E n \in 1 .. Len(Numerals) : part = <<Numerals[n]>>
    THEN (CHOOSE n \in 1 .. Len(Numerals) : part = <<Numerals[n]>>) - 1
    ELSE Undefined

\* current[part] for an object or an array: part is the text of a property
\* name, as pieces. Properties of the prototypes are left out, but for length.
Member(current, part) ==
  IF current.t = "object"
    THEN IF Len(part) = 1 /\ part[1] \in DOMAIN current.v
           THEN current.v[part[1]]
           ELSE Undef
  ELSE IF current.t = "array"
    THEN IF IndexOf(part) # Undefined /\ IndexOf(part) < Len(current.v)
           THEN current.v[IndexOf(part) + 1]
         ELSE IF part = <<"length">> THEN Num(Len(current.v))
         ELSE Undef
  ELSE Undef

RECURSIVE Split(_)
\* path.split("."): the text between the dots, an empty text included.
Split(str) ==
  IF \A k \in 1 .. Len(str) : str[k] # Dot THEN <<str>>
  ELSE LET d == CHOOSE k \in 1 .. Len(str) :
                  str[k] = Dot /\ \A j \in 1 .. k - 1 : str[j] # Dot
       IN  <<SubSeq(str, 1, d - 1)>> \o Split(SubSeq(str, d + 1, Len(str)))

RECURSIVE Trim(_)
\* str.trim()
Trim(str) ==
  IF str # <<>> /\ str[1] = Space THEN Trim(Tail(str))
  ELSE IF str # <<>> /\ str[Len(str)] = Space THEN Trim(SubSeq(str, 1, Len(str) - 1))
  ELSE str

RECURSIVE Walk(_, _, _)
\* The for loop of getNestedValue from its k-th part on.
Walk(current, parts, k) ==
  IF k > Len(parts) THEN current
  ELSE IF current.t \in {"null", "undefined"} THEN Undef
  ELSE IF TypeOf(current) = "object" THEN Walk(Member(current, parts[k]), parts, k + 1)
  ELSE Undef

\* getNestedValue(obj, path)
GetNestedValue(obj, dotted) == Walk(obj, Split(dotted), 1)

\* value.startsWith("{{") && value.endsWith("}}")
IsTemplate(str) == Len(str) >= 2 /\ str[1] = Open /\ str[Len(str)] = Close

\* The body of the loop of resolveTemplates for one entry [key, value];
\* resolveTemplate(value, context) is the same for a string.
ResolveTemplate(value, ctx) ==
  IF value.t = "string" /\ IsTemplate(value.v)
    THEN GetNestedValue(ctx, Trim(SubSeq(value.v, 2, Len(value.v) - 1)))
    ELSE value

\* resolveTemplates(input, context)
ResolveTemplates(input, ctx) ==
  [key \in DOMAIN input |-> ResolveTemplate(input[key], ctx)]

\* value && typeof value === "object"
IsTruthyObject(value) ==
  /\ value.t \notin {"undefined", "null"}
  /\ value # Num(0) /\ value # Str(<<>>)
  /\ TypeOf(value) = "object"

RECURSIVE StringOf(_)
RECURSIVE Join(_, _)
\* elements.join(","), from the k-th element on: null and undefined give the
\* empty text.
Join(elements, k) ==
  LET text == IF elements[k].t \in {"undefined", "null"} THEN <<>>
              ELSE StringOf(elements[k])
  IN  IF k = Len(elements) THEN text ELSE text \o <<Comma>> \o Join(elements, k + 1)

\* String(value)
StringOf(value) ==
  CASE value.t = "undefined" -> <<"undefined">>
    [] value.t = "null" -> <<"null">>
    [] value.t = "number" -> <<Numerals[value.v[1] + 1]>>
    [] value.t = "string" -> value.v
    [] value.t = "object" -> <<"[object Object]">>
    [] value.t = "array" -> IF value.v = <<>> THEN <<>> ELSE Join(value.v, 1)

\* The end of the match of /\{\{(\w+(?:\.\w+)*)\}\}/ at place k of str, or 0:
\* words joined by single dots between "{{" and the next "}}".
MatchEnd(str, k) ==
  IF str[k] # Open \/ \A e \in k + 1 .. Len(str) : str[e] # Close THEN 0
  ELSE LET e == CHOOSE x \in k + 1 .. Len(str) :
                  str[x] = Close /\ \A j \in k + 1 .. x - 1 : str[j] # Close
       IN  IF /\ (e - k) % 2 = 0
              /\ \A j \in k + 1 .. e - 1 :
                   IF (j - k) % 2 = 1 THEN IsWord(str[j]) ELSE str[j] = Dot
             THEN e ELSE 0

RECURSIVE Lookup(_, _, _)
\* The replacer of interpolate for a path: the for loop from its k-th part on,
\* giving the text the match is replaced with, or <<Open>> for the return of
\* the literal `{{${path}}}`.
Lookup(value, parts, k) ==
  IF k > Len(parts)
    THEN IF value.t \in {"undefined", "null"} THEN <<>> ELSE StringOf(value)
  ELSE IF IsTruthyObject(value) THEN Lookup(Member(value, parts[k]), parts, k + 1)
  ELSE <<Open>>

RECURSIVE Scan(_, _, _)
\* template.replace(regex, replacer) from place k on: matches are found from
\* left to right and the replacement text is not searched again.
Scan(str, ctx, k) ==
  IF k > Len(str) THEN <<>>
  ELSE LET e == MatchEnd(str, k) IN
       IF e = 0 THEN <<str[k]>> \o Scan(str, ctx, k + 1)
       ELSE LET text == Lookup(ctx, Split(SubSeq(str, k + 1, e - 1)), 1) IN
            (IF text = <<Open>> THEN SubSeq(str, k, e) ELSE text) \o Scan(str, ctx, e + 1)

\* interpolate(template, context)
Interpolate(template, ctx) == Scan(template, ctx, 1)

\* resolveTemplates(step.input || {}, context) for an input with one field.
Resolve ==
  /\ tPc = "start"
  /\ tKind \in {"sequential", "dag"}
  /\ resolved' = ResolveTemplates([k \in {"field"} |-> Field(recipe)], tContext).field
  /\ tPc' = "done"
  /\ UNCHANGED <<tContext, tKind, recipe, sent>>

\* The notify handler: const message = interpolate(effect.message, context)
Notify ==
  /\ tPc = "start"
  /\ tKind = "effect"
  /\ sent' = Interpolate(Build(recipe), tContext)
  /\ tPc' = "done"
  /\ UNCHANGED <<tContext, tKind, recipe, resolved>>

InitTemplate ==
  /\ tKind \in {"sequential", "dag", "effect"}
  /\ IsContext(tContext, tKind)
  /\ recipe \in [shape : Shapes, path : Paths(MaxPath)]
  /\ resolved = <<>> /\ sent = <<>> /\ tPc = "start"
  /\ DispatchIdle
  /\ StatusIdle
  /\ TierIdle
  /\ policy = NoPolicy
  /\ RetryIdle
  /\ PipelineIdle
  /\ ForEachIdle
  /\ WorkerIdle

NextTemplate ==
  \/ Resolve /\ UNCHANGED <<retryVars, pipeVars, feVars, workerVars, dispVars, statVars, tierVars>>
  \/ Notify /\ UNCHANGED <<retryVars, pipeVars, feVars, workerVars, dispVars, statVars, tierVars>>

SpecTemplate == InitTemplate /\ [][NextTemplate]_vars

-----------------------------------------------------------------------------
(* getTaskStatus and mapState of the queue *)

\* The queues of getQueues().
QueueNames == {"default", "gpu", "cpu"}

\* The queue names a caller gives: a queue, none, or a name of no queue.
QueueArguments == QueueNames \cup {"", "other"}

\* The states job.getState() gives, and those mapState names besides.
BrokerStates ==
  {"completed", "failed", "stuck", "active", "waiting", "delayed", "paused",
   "prioritized", "waiting-children", "unknown"}

\* mapState with "stuck" left to the default branch.
MapStateWithoutStuck(state) ==
  CASE state = "completed" -> "completed"
    [] state = "failed" -> "failed"
    [] state = "active" -> "running"
    [] OTHER -> "pending"

\* mapState(state)
MapState(state) ==
  CASE state = "completed" -> "completed"
    [] state \in {"failed", "stuck"} -> "failed"
    [] state = "active" -> "running"
    [] OTHER -> "pending"

\* getTaskStatus(jobId, queueName = "default") to its first await:
\* allQueues[queueName] || allQueues.default, queue.getJob(jobId)
GetTaskStatus(queueName) ==
  /\ sPc = "start"
  /\ sQueue' = IF queueName \in QueueNames THEN queueName ELSE "default"
  /\ sPc' = "getJob"
  /\ UNCHANGED <<jobs, lookup>>

\* queue.getJob(jobId) returns: if (!job) return null, else job.getState()
GetJobReturns ==
  /\ sPc = "getJob"
  /\ IF jobs[sQueue] = NoJobState
       THEN sPc' = "done"
       ELSE sPc' = "getState"
  /\ UNCHANGED <<jobs, sQueue, lookup>>

\* job.getState() returns: the TaskResult with status: mapState(state)
GetStateReturns ==
  /\ sPc = "getState"
  /\ lookup' = [found |-> TRUE, status |-> MapState(jobs[sQueue])]
  /\ sPc' = "done"
  /\ UNCHANGED <<jobs, sQueue>>

InitStatus ==
  /\ jobs \in [QueueNames -> BrokerStates \cup {NoJobState}]
  /\ sQueue = "" /\ lookup = NoLookup /\ sPc = "start"
  /\ DispatchIdle
  /\ TemplateIdle
  /\ TierIdle
  /\ policy = NoPolicy
  /\ RetryIdle
  /\ PipelineIdle
  /\ ForEachIdle
  /\ WorkerIdle

NextStatus ==
  \/ \E q \in QueueArguments :
       GetTaskStatus(q) /\ UNCHANGED <<retryVars, pipeVars, feVars, workerVars, dispVars, tplVars, tierVars>>
  \/ GetJobReturns /\ UNCHANGED <<retryVars, pipeVars, feVars, workerVars, dispVars, tplVars, tierVars>>
  \/ GetStateReturns /\ UNCHANGED <<retryVars, pipeVars, feVars, workerVars, dispVars, tplVars, tierVars>>

SpecStatus == InitStatus /\ [][NextStatus]_vars

-----------------------------------------------------------------------------
(* The lanes: enqueueTask puts a job on the queue its task names, and
   getTaskStatus looks a job id up in the queue it is given *)

\* The number of jobs enqueued in one behaviour.
MaxJobs == 2

\* allQueues[queueName] || allQueues.default
LaneOf(queueName) == IF queueName \in QueueNames THEN queueName ELSE "default"

\* queue.getJob(jobId): the job of that queue with that id, or none. A job is
\* named by its place among the jobs enqueued.
GetJob(queueName, jobId) ==
  IF jobId \in DOMAIN lanes[queueName] THEN <<lanes[queueName][jobId]>> ELSE <<>>

\* enqueueTask(task) with task.queue = queueName ("": absent, and
\* task.queue || "default" is the default lane): queue.add gives the job the
\* next id of that queue, and the id is what enqueueTask returns.
LaneEnqueue(queueName) ==
  /\ Len(handles) < MaxJobs
  /\ LET lane == LaneOf(queueName)
         jobId == Len(lanes[lane]) + 1
     IN  /\ lanes' = [lanes EXCEPT ![lane] = Append(@, Len(handles) + 1)]
         /\ handles' = Append(handles, [lane |-> lane, id |-> jobId])
  /\ UNCHANGED found

\* getTaskStatus(handles[h].id, queueName) ("": the argument is omitted and
\* the parameter defaults to "default"): the job it reads the status of.
LaneLookup(h, queueName) ==
  /\ found' = [handle |-> h, queue |-> queueName,
               job |-> GetJob(LaneOf(queueName), handles[h].id)]
  /\ UNCHANGED <<lanes, handles>>

\* What the lanes and splitMediaFile leave alone.
rest == <<retryVars, pipeVars, feVars, workerVars, dispVars, tplVars, statVars>>

InitLanes ==
  /\ DispatchIdle /\ TemplateIdle /\ StatusIdle
  /\ QueueIdle /\ SplitIdle
  /\ lanes = [q \in QueueNames |-> <<>>]
  /\ handles = <<>>
  /\ found = NoFound
  /\ WorkerIdle
  /\ PipelineIdle
  /\ ForEachIdle
  /\ policy = NoPolicy
  /\ RetryIdle

NextLanes ==
  \/ \E q \in QueueArguments : LaneEnqueue(q) /\ UNCHANGED <<rest, queueVars, splitVars>>
  \/ \E h \in DOMAIN handles : \E q \in QueueArguments :
       LaneLookup(h, q) /\ UNCHANGED <<rest, queueVars, splitVars>>

SpecLanes == InitLanes /\ [][NextLanes]_vars

-----------------------------------------------------------------------------
(* splitMediaFile: the chunks of a media file *)

\* The longest media file, in seconds.
MaxDuration == 4

\* No run that advances pushes more chunks than the file has seconds; the
\* loop is cut off one chunk later.
MaxChunks == MaxDuration + 1

\* Math.min
MathMin(a, b) == IF a <= b THEN a ELSE b

\* The arguments of splitMediaFile and the duration ffprobe reports.
IsMedia(m) ==
  \E d \in 0..MaxDuration, c \in 1..MaxDuration, o \in 0..(MaxDuration - 1) :
    /\ o < c
    /\ m = [duration |-> d, chunkSize |-> c, overlap |-> o]

\* getMediaDuration returned: a file no longer than a chunk is returned as
\* its own only chunk; otherwise the loop is entered (start = 0 < duration)
\* and runs to its await of ffmpeg.
DurationReturns ==
  /\ splitPc = "duration"
  /\ start' = 0
  /\ index' = 0
  /\ IF media.duration <= media.chunkSize
       THEN /\ chunks' = <<[index |-> 0, start |-> 0, end |-> media.duration]>>
            /\ splitPc' = "returned"
       ELSE /\ chunks' = <<>>
            /\ splitPc' = "ffmpeg"
  /\ UNCHANGED media

\* ffmpeg returned: the chunk is pushed, start moves to end - overlapSeconds,
\* and the loop breaks or runs to its next await of ffmpeg (after the break
\* test the loop's own test start < duration is true).
FfmpegReturns ==
  /\ splitPc = "ffmpeg"
  /\ Len(chunks) < MaxChunks
  /\ LET end == MathMin(start + media.chunkSize, media.duration)
     IN  /\ chunks' = Append(chunks, [index |-> index, start |-> start, end |-> end])
         /\ start' = end - media.overlap
         /\ IF end - media.overlap >= media.duration
              THEN /\ splitPc' = "returned"
                   /\ index' = index
              ELSE /\ splitPc' = "ffmpeg"
                   /\ index' = index + 1
  /\ UNCHANGED media

InitSplit ==
  /\ DispatchIdle /\ TemplateIdle /\ StatusIdle
  /\ QueueIdle /\ LanesIdle
  /\ IsMedia(media)
  /\ start = 0
  /\ index = 0
  /\ chunks = <<>>
  /\ splitPc = "duration"
  /\ WorkerIdle
  /\ PipelineIdle
  /\ ForEachIdle
  /\ policy = NoPolicy
  /\ RetryIdle

NextSplit ==
  \/ DurationReturns /\ UNCHANGED <<rest, queueVars, laneVars>>
  \/ FfmpegReturns /\ UNCHANGED <<rest, queueVars, laneVars>>

\* ffprobe and ffmpeg return in the end.
SpecSplit == InitSplit /\ [][NextSplit]_vars /\ WF_vars(NextSplit)

-----------------------------------------------------------------------------
(* Claims about pipelines *)

Settled == pc \in {"resolved", "rejected"}

StatusCount == Len(stepStatuses)

\* The Step that the k-th StepStatus is about.
StepOfStatus(k) ==
  IF HasDependencies THEN StepMapGet(stepStatuses[k].id) ELSE Steps[k]

\* The result stored for the k-th StepStatus.
ResultOfStatus(k) ==
  IF HasDependencies THEN Get(results, stepStatuses[k].id)
  ELSE IF k <= Len(stepResults) THEN stepResults[k] ELSE NoResult

WithStatus(S) == { k \in 1 .. StatusCount : stepStatuses[k].status \in S }

Resolved(id) ==
  \E j \in 1 .. StatusCount :
    /\ stepStatuses[j].id = id
    /\ stepStatuses[j].status \in {"completed", "skipped"}

IsDeadlock(err) == err.kind = "Error" /\ Len(err.msg) = 2 /\ err.msg[1] = "Pipeline deadlock"

\* C1: in DAG mode every dependency p of a step s that has started is
\* completed or skipped, with completedAt(p) recorded and
\* completedAt(p) <= startedAt(s).
C1_DependenciesCompleteBeforeStart ==
  HasDependencies =>
    \A k \in 1 .. StatusCount :
      stepStatuses[k].startedAt # Undefined =>
        \A p \in StepOfStatus(k).dependsOn :
          \E j \in 1 .. StatusCount :
            /\ stepStatuses[j].id = p
            /\ stepStatuses[j].status \in {"completed", "skipped"}
            /\ stepStatuses[j].completedAt # Undefined
            /\ stepStatuses[j].completedAt <= stepStatuses[k].startedAt

\* A step with two dependencies has started, one of them skipped.
C1_Witness ==
  /\ HasDependencies
  /\ \E k \in 1 .. StatusCount :
       /\ stepStatuses[k].startedAt # Undefined
       /\ Cardinality(StepOfStatus(k).dependsOn) = 2
       /\ \E j \in WithStatus({"skipped"}) : stepStatuses[j].id \in StepOfStatus(k).dependsOn

\* No step starts once a step has failed: every start is before every failure.
NoStartAfterFailure ==
  \A f \in WithStatus({"failed"}) :
    \A k \in 1 .. StatusCount :
      stepStatuses[k].startedAt # Undefined =>
        stepStatuses[k].startedAt < stepStatuses[f].completedAt

\* C2 (as stated): when a step that is not optional has failed all its
\* attempts, processTask rejects with that step's error, and no step starts
\* afterwards.
C2_RejectsWithThatStepsError ==
  /\ Settled =>
       \A f \in WithStatus({"failed"}) :
         /\ pc = "rejected"
         /\ rejection.kind = "Error"
         /\ rejection.msg = stepStatuses[f].error
  /\ NoStartAfterFailure

\* C2 (amended): processTask rejects with the error of the first failed step
\* in the order of the steps (the only failed step in sequential mode, the
\* first failed one of the launched group in DAG mode), and no step starts
\* afterwards. The error of a failed step is the one of its last attempt, or
\* the one of selectBackend.
C2_RejectsWithFirstFailedStepsError ==
  /\ Settled =>
       \A f \in WithStatus({"failed"}) :
         /\ ~StepOfStatus(f).optional
         /\ pc = "rejected"
         /\ rejection.kind = "Error"
         /\ (\A g \in WithStatus({"failed"}) : f <= g) =>
              /\ rejection.msg = stepStatuses[f].error
              /\ rejection.msg \in
                   { BackendError(stepStatuses[f].task,
                       IF NoRetry(task.retry) THEN 1 ELSE task.retry.attempts).msg,
                     SelectFailure(stepStatuses[f].task).msg }
  /\ NoStartAfterFailure

\* processTask rejected after two steps of one group failed, each on its
\* second and last attempt.
C2_Witness ==
  /\ pc = "rejected"
  /\ Cardinality(WithStatus({"failed"})) = 2
  /\ rejection.msg[2] = 2

\* C3 (as stated): in DAG mode a pending step whose dependencies are all
\* completed or skipped does not wait for a step that is still running.
C3_LaunchedAsSoonAsDepsResolved ==
  HasDependencies =>
    \A k \in WithStatus({"pending"}) :
      DepsSatisfied(StepOfStatus(k)) => running = {}

\* The tasks of the steps that are still pending, in declaration order.
PendingTasks ==
  LET idx == SelectSeq([i \in 1 .. Len(Steps) |-> i],
               LAMBDA i : \E k \in WithStatus({"pending"}) : stepStatuses[k].id = StepIdAt(i))
  IN  [k \in 1 .. Len(idx) |-> Steps[idx[k]].task]

\* C4: in DAG mode, when the scheduler is done and no step has failed while
\* some step is still pending (nothing was runnable and nothing running),
\* processTask has rejected with the deadlock error, which lists every
\* pending step; and the scheduler is never left waiting with no step
\* running.
C4_DeadlockIsRaised ==
  HasDependencies =>
    /\ (Settled /\ WithStatus({"failed"}) = {} /\ WithStatus({"pending"}) # {}) =>
         /\ pc = "rejected"
         /\ IsDeadlock(rejection)
         /\ rejection.msg[2] = PendingTasks
    /\ (pc = "await" /\ running = {}) => DOMAIN outcomes = Range(group)
    /\ pc = "resolved" => WithStatus({"pending", "running"}) = {}

\* A deadlock error that names two steps, after another step completed.
C4_Witness ==
  /\ pc = "rejected"
  /\ IsDeadlock(rejection)
  /\ Len(rejection.msg[2]) = 2
  /\ WithStatus({"completed"}) # {}

\* C5: a step is skipped only when it is optional and failed its last
\* attempt (or the selection of its backend); then its result is {skipped: true, error: <message>}, it counts
\* as completed for its dependents, and processTask does not reject because
\* of it: a rejection comes from a failed step, which is never optional, or
\* from a deadlock over steps with a dependency that is neither completed
\* nor skipped.
C5_OptionalFailureIsSkipped ==
  /\ \A k \in WithStatus({"skipped"}) :
       LET s == stepStatuses[k]
           last == IF NoRetry(task.retry) THEN 1 ELSE task.retry.attempts
       IN  /\ StepOfStatus(k).optional
           /\ s.error \in {BackendError(s.task, last).msg, SelectFailure(s.task).msg}
           /\ ResultOfStatus(k) = [value |-> <<>>, skipped |-> TRUE, error |-> s.error]
           /\ HasDependencies => (s.id \in completed /\ s.id \notin failed)
           /\ ~HasDependencies =>
                IF k < Len(Steps) THEN StatusCount > k ELSE pc = "resolved"
  /\ \A k \in WithStatus({"failed"}) : ~StepOfStatus(k).optional
  /\ pc = "rejected" =>
       \/ WithStatus({"failed"}) # {}
       \/ /\ IsDeadlock(rejection)
          /\ \A k \in WithStatus({"pending"}) :
               \E p \in StepOfStatus(k).dependsOn : ~Resolved(p)

\* The pipeline resolved, and a step ran whose dependency was skipped.
C5_Witness ==
  /\ pc = "resolved"
  /\ \E k \in WithStatus({"completed"}) :
       \E j \in WithStatus({"skipped"}) :
         stepStatuses[j].id \in StepOfStatus(k).dependsOn

LegalMove(old, new) ==
  \/ new = old
  \/ old = "pending" /\ new = "running"
  \/ old = "running" /\ new \in {"completed", "failed", "skipped"}

\* C6: a StepStatus only moves pending -> running -> completed | failed |
\* skipped: it is never set to running twice (startedAt is written once), a
\* terminal status never changes, and a StepStatus is never replaced.
C6_StatusOnlyMovesForward ==
  [][ /\ Len(stepStatuses') >= StatusCount
      /\ \A k \in 1 .. StatusCount :
           /\ stepStatuses'[k].id = stepStatuses[k].id
           /\ LegalMove(stepStatuses[k].status, stepStatuses'[k].status)
           /\ stepStatuses[k].status # "pending" =>
                stepStatuses'[k].startedAt = stepStatuses[k].startedAt
           /\ stepStatuses[k].status \in {"completed", "failed", "skipped"} =>
                stepStatuses'[k] = stepStatuses[k]
      /\ \A k \in StatusCount + 1 .. Len(stepStatuses') :
           /\ stepStatuses'[k].status \in {"pending", "running"}
           /\ \A j \in 1 .. Len(stepStatuses') : j # k => stepStatuses'[j].id # stepStatuses'[k].id
    ]_vars

\* One step completed, one skipped and one failed.
C6_Witness ==
  /\ WithStatus({"completed"}) # {}
  /\ WithStatus({"skipped"}) # {}
  /\ WithStatus({"failed"}) # {}

-----------------------------------------------------------------------------
(* Claims about forEach *)

InFlight == { k \in DOMAIN items : items[k].phase = "exec" }

\* C10: with forEachConcurrency = c (a positive integer) at most c backend
\* executions for items of the step are in flight, and an item has started
\* only if every item of the batches before its own has finished (resolved).
C10_ForEachConcurrencyBound ==
  LET c == FeStep.forEachConcurrency IN
  (Len(Steps) = 1 /\ c # Undefined /\ c >= 1) =>
    /\ Cardinality(InFlight) <= c
    /\ \A k \in DOMAIN items :
         items[k].phase # "idle" =>
           \A j \in DOMAIN items : j < (k \div c) * c => items[j].phase = "done"

\* forEachConcurrency = 2 over three items: the third item is in flight.
C10_Witness ==
  /\ Len(Steps) = 1
  /\ FeStep.forEachConcurrency = 2
  /\ 2 \in DOMAIN items
  /\ items[2].phase = "exec"

StatusOf(id) == stepStatuses[StatusIndex(id)]

\* C13: when a step of a launched group has failed, processTask rejects only
\* once every step of the group has reached a terminal status (none is
\* cancelled: each ran to its own end), and no step is started after the
\* group the failed step belongs to.
C13_GroupAwaitedThenRejected ==
  HasDependencies =>
    /\ (pc = "rejected" /\ ~IsDeadlock(rejection)) =>
         /\ running = {}
         /\ \A id \in Range(group) :
              /\ StatusOf(id).status \in {"completed", "skipped", "failed"}
              /\ StatusOf(id).completedAt # Undefined
    /\ \A f \in failed :
         /\ f \in Range(group)
         /\ pc \in {"await", "rejected"}
         /\ \A k \in 1 .. StatusCount :
              stepStatuses[k].startedAt # Undefined =>
                stepStatuses[k].startedAt <= StatusOf(f).startedAt

\* processTask has rejected after a group of which one step failed and
\* another completed, with a step still pending.
C13_Witness ==
  /\ HasDependencies
  /\ pc = "rejected"
  /\ Len(group) >= 2
  /\ \E f \in Range(group), g \in Range(group) :
       /\ StatusOf(f).status = "failed"
       /\ StatusOf(g).status = "completed"
  /\ WithStatus({"pending"}) # {}

\* C14: for every group G recorded in parallelGroups and every step g of G,
\* every id in g.dependsOn is no member of G and is completed or skipped in
\* every state from the launch of G on, with completedAt <= startedAt(g).
C14_GroupMembersAreIndependent ==
  \A n \in 1 .. Len(parallelGroups) :
    LET G == parallelGroups[n] IN
    \A g \in Range(G) :
      /\ StatusOf(g).startedAt # Undefined
      /\ \A h \in Range(G) : StatusOf(h).startedAt = StatusOf(g).startedAt
      /\ \A dep \in StepMapGet(g).dependsOn :
           /\ dep \notin Range(G)
           /\ Resolved(dep)
           /\ StatusOf(dep).completedAt <= StatusOf(g).startedAt

\* A recorded group has two members with a dependency.
C14_Witness ==
  \E n \in 1 .. Len(parallelGroups) :
    \E g \in Range(parallelGroups[n]), h \in Range(parallelGroups[n]) :
      /\ g # h
      /\ StepMapGet(g).dependsOn # {}
      /\ StepMapGet(h).dependsOn # {}

\* The result of the i-th declared step, from what its StepStatus tells: the
\* backend's result when it completed, the skip record when it was skipped.
ResultOfStep(i) ==
  LET k == CHOOSE k \in 1 .. StatusCount : stepStatuses[k].id = StepIdAt(i)
  IN  IF stepStatuses[k].status = "skipped"
        THEN SkippedResult(stepStatuses[k].error)
        ELSE BackendResult(Steps[i].task)

\* C12: in a returned PipelineResult steps[i] is stepResults[id of the i-th
\* declared step], which is that step's result, for every i, and finalResult
\* is the result of the last declared step.
C12_ResultRoundTrip ==
  returned.set =>
    /\ Len(returned.steps) = Len(Steps)
    /\ \A i \in 1 .. Len(Steps) :
         /\ StepIdAt(i) \in DOMAIN returned.stepResults
         /\ returned.steps[i] = returned.stepResults[StepIdAt(i)]
         /\ returned.steps[i] = ResultOfStep(i)
    /\ returned.finalResult = ResultOfStep(Len(Steps))

\* A DAG pipeline of several steps has returned; its first step was skipped
\* and its last one completed.
C12_Witness ==
  /\ returned.set
  /\ HasDependencies
  /\ Len(Steps) >= 2
  /\ returned.steps[1].skipped
  /\ ~returned.finalResult.skipped

\* The sequence a forEach step is to return: entry k is the result of the
\* execution with item = element k and index = k.
ResultPerItem ==
  ArrayResult([q \in 1 .. FeCount |-> ItemResult(FeStep.task, q - 1)])

\* C11 (as stated): a step that declares forEach and completes has as its
\* result a sequence with one entry per element of the resolved forEach
\* sequence, entry k being the result of the execution for element k.
C11_ForEachResultPerItem ==
  \A k \in 1 .. StatusCount :
    (StepOfStatus(k).forEach # Undefined /\ stepStatuses[k].status = "completed") =>
      ResultOfStatus(k) = ResultPerItem

\* What the code does: the claim's property for the steps that the DAG
\* scheduler runs.
ForEachResultInDagMode ==
  HasDependencies => C11_ForEachResultPerItem

\* The one step of the pipeline declares forEach, and its template resolves
\* to something that is not a sequence.
ForEachNotASequence ==
  /\ Len(Steps) = 1
  /\ FeStep.forEach # Undefined
  /\ ~IsArray(FeStep.forEach)

\* C31 (as stated): if a step's forEach template resolves to anything other
\* than a sequence, the step fails with an error that reports the template
\* and the observed kind, no backend execution is made for the step, and
\* processTask rejects with that error.
C31_NotASequenceFailsStepAndJob ==
  ForEachNotASequence =>
    /\ \A k \in DOMAIN items : items[k].phase \notin {"exec", "sleep", "done"}
    /\ \A k \in 1 .. StatusCount :
         /\ stepStatuses[k].status \in {"running", "failed"}
         /\ stepStatuses[k].status = "failed" =>
              stepStatuses[k].error = ForEachError(FeStep).msg
    /\ pc # "resolved"
    /\ pc = "rejected" =>
         /\ rejection = ForEachError(FeStep)
         /\ rejection.msg[2] = FeStep.forEach
         /\ rejection.msg[4] = TypeOfItems(FeStep.forEach)

\* What the code does: the claim's property for a step that the DAG scheduler
\* runs and that is not optional.
NotASequenceInDagMode ==
  (HasDependencies /\ ~FeStep.optional) => C31_NotASequenceFailsStepAndJob

\* The DAG scheduler has rejected with the error of the forEach validation.
NotASequenceRejected ==
  /\ ForEachNotASequence
  /\ pc = "rejected"
  /\ rejection = ForEachError(FeStep)

\* C32 (as stated): when the promise of processTask for a pipeline has
\* settled, no backend execution made for the pipeline is in flight: none
\* of a step, and none of an item of a forEach step, first attempt or retry.
C32_NothingInFlightOnceSettled ==
  pc \in {"resolved", "rejected"} =>
    /\ InFlight = {}
    /\ running = {}
    /\ DOMAIN attemptOf = {}

\* What the code does: the claim's property for the pipelines without a
\* forEach step that the DAG scheduler runs; every executeStep promise of a
\* group is awaited, and none of them rejects.
NothingInFlightWithoutForEach ==
  (\A i \in 1 .. Len(Steps) : Steps[i].forEach = Undefined) =>
    C32_NothingInFlightOnceSettled

\* processTask has rejected with the error of one item while another item
\* of the same batch is still being executed.
ItemOutlivesPipeline ==
  /\ pc = "rejected"
  /\ InFlight # {}
  /\ \E k \in DOMAIN items : items[k].phase = "rejected"

-----------------------------------------------------------------------------
(* Claims about the loop of the DAG scheduler *)

\* Promise.all(executions) of the group is about to resolve: the next thing
\* processPipelineDAG does is its failure check and, when no step of the
\* group failed, the next scheduling iteration.
AtIterationStart ==
  /\ pc = "await"
  /\ \A id \in Range(group) : id \in DOMAIN outcomes

\* C33: in the DAG scheduler the Set running is empty at the start of every
\* scheduling iteration (the first one, and each one after the await of a
\* group), so the branch that sleeps because nothing is runnable while
\* something is running is never taken.
C33_RunningEmptyAtIteration ==
  HasDependencies =>
    /\ pc = "start" => running = {}
    /\ AtIterationStart => running = {}
    /\ pc # "yield"

\* A group of two steps has settled without a failure while a third step is
\* pending: a further iteration starts, with nothing running.
C33_Witness ==
  /\ HasDependencies
  /\ AtIterationStart
  /\ Len(group) >= 2
  /\ failed = {}
  /\ running = {}
  /\ WithStatus({"pending"}) # {}

\* processTask has settled the way the scheduler can end: with a
\* PipelineResult, with the error of a step that failed, or with the
\* deadlock error.
SchedulerOver ==
  \/ pc = "resolved" /\ returned.set
  \/ /\ pc = "rejected"
     /\ \/ IsDeadlock(rejection)
        \/ \E k \in 1 .. StatusCount :
             /\ stepStatuses[k].status = "failed"
             /\ stepStatuses[k].error = rejection.msg

\* C34: for every steps array (any dependsOn graph, cycles and ids that do
\* not exist included, and ids that are not unique) with forEachConcurrency
\* absent or positive, the DAG scheduler terminates: it returns a
\* PipelineResult, rejects with a step's error or rejects with the deadlock
\* error, when every backend call and retry wait terminates.
C34_SchedulerTerminates == <>SchedulerOver

\* The scheduler has ended with the deadlock error after a step whose
\* dependsOn names the step itself was left over, the other step done.
C34_Witness ==
  /\ pc = "rejected"
  /\ IsDeadlock(rejection)
  /\ completed # {}
  /\ \E i \in 1 .. Len(Steps) : StepIdAt(i) \in Steps[i].dependsOn

\* A forEach step with a positive forEachConcurrency has run all its
\* batches, and the scheduler has returned.
C34_WitnessForEach ==
  /\ pc = "resolved"
  /\ FeStep.forEach # Undefined
  /\ FeStep.forEachConcurrency # Undefined
  /\ FeStep.forEachConcurrency >= 1
  /\ FeStep.forEachConcurrency < Len(itemResults)

\* The ids of the declared steps that are neither completed nor failed: the
\* steps the deadlock error lists as remaining.
Remaining ==
  { i \in 1 .. Len(Steps) : StepIdAt(i) \notin completed /\ StepIdAt(i) \notin failed }

\* C35 (as stated): the DAG scheduler raises the deadlock error only when at
\* least one step was never started, and a pipeline in which every declared
\* step has completed or been skipped returns a PipelineResult.
C35_DeadlockOnlyWithUnstartedStep ==
  /\ (pc = "rejected" /\ IsDeadlock(rejection)) =>
       /\ Remaining # {}
       /\ WithStatus({"pending"}) # {}
  /\ (pc \in {"resolved", "rejected"} /\ \A i \in 1 .. Len(Steps) : StepIdAt(i) \in completed) =>
       /\ pc = "resolved"
       /\ returned.set

\* No two declared steps have the same id (given or generated).
UniqueIds ==
  \A i \in 1 .. Len(Steps), j \in 1 .. Len(Steps) : StepIdAt(i) = StepIdAt(j) => i = j

\* What the code does: the claim's property for the pipelines whose ids
\* are unique.
DeadlockWithUniqueIds == UniqueIds => C35_DeadlockOnlyWithUnstartedStep

\* Two steps have the same id, the one step the scheduler knows has
\* completed, and the scheduler has raised the deadlock error.
DeadlockAfterEveryStep ==
  /\ pc = "rejected"
  /\ IsDeadlock(rejection)
  /\ Remaining = {}
  /\ WithStatus({"completed"}) # {}
  /\ WithStatus({"pending", "running", "failed"}) = {}

-----------------------------------------------------------------------------
(* Claims about the events *)

\* The places in events of the events of a type for a step.
EventsOf(type, id) ==
  { k \in 1 .. Len(events) : events[k].type = type /\ events[k].stepId = id }

\* The places of the terminal events of a step.
TerminalEvents(id) == EventsOf("step:complete", id) \cup EventsOf("step:error", id)

C36_WitnessFailure ==
  /\ onEvent
  /\ ~HasDependencies
  /\ pc = "rejected"
  /\ Len(events) = 4
  /\ events[4].type = "step:error"

\* A forEach step has failed with one item while another is in flight: the
\* step has its one step:error.
C36_WitnessForEach ==
  /\ onEvent
  /\ InFlight # {}
  /\ fePc = "done"
  /\ EventsOf("step:error", FeId) # {}

-----------------------------------------------------------------------------
(* Claims about the queue tier *)

\* C37 (as stated): over the whole life of one enqueued job, all its outer
\* attempts counted, the onError effect list is run at most once, and it is
\* never run for a job whose onSuccess effect list is run too.
C37_OnErrorAtMostOnce ==
  /\ effectRuns.onError <= 1
  /\ ~(effectRuns.onError >= 1 /\ effectRuns.onSuccess >= 1)

\* What the code does: each call of the processor runs at most one of the
\* two lists, once, and no call follows one that returned.
OnErrorOncePerAttempt ==
  /\ effectRuns.onError + effectRuns.onSuccess <= executions
  /\ effectRuns.onSuccess <= 1

\* The job failed in its first attempt and succeeded in its second: both
\* lists were run.
ErrorThenSuccess ==
  /\ wPc = "returned"
  /\ executions = 2
  /\ effectRuns = [onError |-> 1, onSuccess |-> 1]

\* C38 (as stated): the attempt count enqueueTask asks the broker for is the
\* task's retry.attempts whenever a retry policy is given, and a job without
\* a retry policy is executed at most once at the queue tier.
C38_OuterAttemptsFromPolicy ==
  ePc # "start" =>
    /\ policy # NoPolicy => jobOptions.attempts = policy.attempts
    /\ policy = NoPolicy => executions <= 1

\* What the code does: the first half of the claim; and no job is executed
\* more often than the attempts asked for.
AttemptsOfGivenPolicy ==
  ePc # "start" =>
    /\ policy # NoPolicy => jobOptions.attempts = policy.attempts
    /\ policy = NoPolicy => jobOptions.attempts = DefaultAttempts
    /\ executions <= jobOptions.attempts

\* A job without a retry policy is being executed for the third time.
ThirdAttemptWithoutPolicy ==
  /\ policy = NoPolicy
  /\ executions = 3
  /\ wPc = "task"

-----------------------------------------------------------------------------
(* Claims about the lanes *)

\* The job the last lookup was made for is the job it read.
FoundTheJob == found.job = <<found.handle>>

\* C39: a status lookup that is given the id enqueueTask returned and no lane
\* reads the status of that same job, whichever lane the job was put on.
C39_LookupWithoutLane ==
  (found.handle # 0 /\ found.queue = "") => FoundTheJob

\* The part of C39 that holds: a lookup that names the lane the job is on, or
\* names none for a job on the default lane, reads that job.
LookupInTheJobsLane ==
  (found.handle # 0 /\ LaneOf(found.queue) = handles[found.handle].lane)
    => FoundTheJob

\* A lookup without a lane read the status of another job: the job of the
\* default lane that has the same id as the job asked for.
LookupReadAnotherJob ==
  /\ found.handle # 0
  /\ found.queue = ""
  /\ found.job # <<>>
  /\ ~FoundTheJob

\* A lookup without a lane found no job although the job is on its lane.
LookupMissedTheJob ==
  /\ found.handle # 0
  /\ found.queue = ""
  /\ found.job = <<>>
  /\ GetJob(handles[found.handle].lane, handles[found.handle].id) = <<found.handle>>

-----------------------------------------------------------------------------
(* Claims about splitMediaFile *)

\* The chunks are indexed 0, 1, ... in order, the first starts at 0, the last
\* ends at the duration, and no chunk starts after the one before it ended.
ChunksCover ==
  /\ chunks # <<>>
  /\ \A k \in DOMAIN chunks : chunks[k].index = k - 1
  /\ chunks[1].start = 0
  /\ chunks[Len(chunks)].end = media.duration
  /\ \A k \in 2..Len(chunks) : chunks[k].start <= chunks[k - 1].end

SplitWithoutOverlapTerminates ==
  (media.duration <= media.chunkSize \/ media.overlap = 0)
    => <>(splitPc = "returned" /\ ChunksCover)

\* With an overlap the loop is never left: what is returned then is the only
\* chunk of a file no longer than a chunk.
SplitWithOverlapNeverReturns ==
  (splitPc = "returned" /\ media.overlap > 0) => media.duration <= media.chunkSize

\* The last chunk has reached the end of the file and was pushed again: start
\* has stopped at duration - overlap.
LastChunkRepeats ==
  /\ splitPc = "ffmpeg"
  /\ Len(chunks) >= 2
  /\ chunks[Len(chunks)].end = media.duration
  /\ chunks[Len(chunks) - 1].end = media.duration
  /\ chunks[Len(chunks)].start = chunks[Len(chunks) - 1].start
  /\ start = chunks[Len(chunks)].start

-----------------------------------------------------------------------------
(* Claims about the sequential executor *)

\* processPipelineSequential has been entered.
InSequentialMode == ~HasDependencies /\ pc \in {"seq", "resolved", "rejected"}

\* C22: in sequential mode the steps are started one at a time in declaration
\* order: the k-th step started is the k-th declared step, only the step
\* started last can be running, every step before it is completed or skipped,
\* and it was started no earlier than its predecessor ended.
C22_SequentialOneAtATimeInOrder ==
  InSequentialMode =>
    \A k \in 1 .. Len(stepStatuses) :
      /\ stepStatuses[k].id = SynthIds[k]
      /\ stepStatuses[k].task = Steps[k].task
      /\ stepStatuses[k].status = "running" => k = Len(stepStatuses) /\ pc = "seq"
      /\ k < Len(stepStatuses) =>
           /\ stepStatuses[k].status \in {"completed", "skipped"}
           /\ stepStatuses[k].completedAt # Undefined
           /\ stepStatuses[k].completedAt <= stepStatuses[k + 1].startedAt

\* The third step is running after a completed and a skipped one.
C22_Witness ==
  /\ InSequentialMode
  /\ pc = "seq"
  /\ Len(stepStatuses) = 3
  /\ stepStatuses[1].status = "completed"
  /\ stepStatuses[2].status = "skipped"
  /\ stepStatuses[3].status = "running"

-----------------------------------------------------------------------------
(* Claims about the dispatcher and the selection of a backend *)

\* What processTask settled with on the single-task path, if it has.
SingleOutcome ==
  IF dPc = "rejected" THEN dRejection
  ELSE IF rPc \in {"resolved", "rejected"} THEN settled
  ELSE NoValue

\* The single-task path: one selection, no progress report, and the backend
\* executed under the task's retry policy only once it is selected.
SingleTaskPath ==
  /\ selects = 1
  /\ progressCalls = 0
  /\ calls # <<>> => selected # NoBackend /\ dPc = "execute"
  /\ Len(calls) <= (IF policy.attempts = Undefined \/ policy.attempts < 1
                      THEN 1 ELSE policy.attempts)
  /\ (rPc = "rejected" /\ policy.attempts # Undefined /\ policy.attempts > 1) =>
       Len(calls) = policy.attempts

\* C21: processTask takes the DAG path iff steps is present and some step has
\* an id or a dependsOn, the sequential path iff steps is present and no step
\* has either, and otherwise the single-task path, with one backend selection,
\* execution under retry and no call of the progress callback.
C21_PathByPresence ==
  dPc # "start" =>
    LET present == call.steps # None
        named == /\ present
                 /\ \E i \in 1 .. Len(call.steps[1]) :
                      \/ call.steps[1][i].id # None
                      \/ call.steps[1][i].dependsOn # None
    IN  /\ path = "dag" <=> named
        /\ path = "sequential" <=> (present /\ ~named)
        /\ path = "single" <=> ~present
        /\ path = "single" => SingleTaskPath

\* C21, amended: the DAG path iff steps is not empty and some step has a
\* non-empty id or a non-empty dependsOn, the sequential path iff steps is not
\* empty and no step has either, and the single-task path iff steps is absent
\* or empty; that path makes one backend selection, executes the backend under
\* retry once the selection succeeded and never calls the progress callback.
C21_PathByContent ==
  dPc # "start" =>
    LET nonEmpty == call.steps \notin {None, Some(<<>>)}
        named == /\ nonEmpty
                 /\ \E i \in 1 .. Len(call.steps[1]) :
                      \/ call.steps[1][i].id \notin {None, Some("")}
                      \/ call.steps[1][i].dependsOn \notin {None, Some(<<>>)}
    IN  /\ path = "dag" <=> named
        /\ path = "sequential" <=> (nonEmpty /\ ~named)
        /\ path = "single" <=> ~nonEmpty
        /\ path = "single" => SingleTaskPath

\* A task with an empty steps array was executed as a single task, under
\* retry: both attempts failed.
C21_Witness ==
  /\ call.steps = Some(<<>>)
  /\ path = "single"
  /\ selected # NoBackend
  /\ rPc = "rejected"
  /\ Len(calls) = 2

\* A pipeline whose steps have an empty id and an empty dependsOn only, on the
\* sequential path.
C21_WitnessEmptyFields ==
  /\ path = "sequential"
  /\ \E i \in 1 .. Len(call.steps[1]) :
       call.steps[1][i].id = Some("") /\ call.steps[1][i].dependsOn = Some(<<>>)

\* selectBackend has returned or thrown.
Selection == dPc \in {"execute", "rejected"} /\ path = "single"

\* C28: with an explicit task.backend the selector returns that backend, and
\* fails if it is not registered or its health probe is false; with "auto" or
\* no backend it returns the first registered backend, in registration order,
\* whose health probe is true, and fails if none is healthy.
C28_SelectionRules ==
  Selection =>
    IF call.backend \notin {None, Some("auto")}
      THEN LET b == call.backend[1] IN
           IF \A k \in 1 .. Len(registry) : registry[k] # b
             THEN dPc = "rejected" /\ probes = <<>> /\ dRejection.msg = "not found"
             ELSE /\ Len(probes) = 1 /\ probes[1].name = b
                  /\ IF probes[1].ok
                       THEN dPc = "execute" /\ selected = b
                       ELSE dPc = "rejected" /\ dRejection.msg = "not healthy"
      ELSE /\ Len(probes) <= Len(registry)
           /\ \A k \in 1 .. Len(probes) : probes[k].name = registry[k]
           /\ \A k \in 1 .. Len(probes) - 1 : ~probes[k].ok
           /\ IF probes # <<>> /\ probes[Len(probes)].ok
                THEN dPc = "execute" /\ selected = registry[Len(probes)]
                ELSE /\ dPc = "rejected"
                     /\ Len(probes) = Len(registry)
                     /\ dRejection.msg = "no healthy backend"

\* Automatic selection skipped the backend registered first, whose probe was
\* false, and returned the second.
C28_Witness ==
  /\ Selection
  /\ call.backend = Some("auto")
  /\ Len(registry) = 2
  /\ Len(probes) = 2 /\ ~probes[1].ok /\ probes[2].ok
  /\ selected = registry[2]

\* An explicit backend that is registered and not healthy was refused.
C28_WitnessExplicit ==
  /\ Selection
  /\ call.backend = Some("modal")
  /\ registry = <<"ray", "modal">>
  /\ probes = <<[name |-> "modal", ok |-> FALSE]>>
  /\ dPc = "rejected"

\* The places in stepStatuses of the steps whose backend selection failed.
SelectFailed ==
  { k \in 1 .. Len(stepStatuses) :
      stepStatuses[k].error = SelectFailure(stepStatuses[k].task).msg }

\* The step of the StepStatus at place k.
StepOfPlace(k) ==
  IF HasDependencies THEN StepMapGet(stepStatuses[k].id) ELSE Steps[k]

\* C30: if backend selection fails for any pipeline step, the whole job fails
\* with the selector's error.
C30_SelectionFailureFailsJob ==
  \A k \in SelectFailed :
    /\ stepStatuses[k].status = "failed"
    /\ pc \in {"resolved", "rejected"} =>
         pc = "rejected" /\ rejection = SelectFailure(stepStatuses[k].task)

\* C30, amended: when backend selection fails for a step that is not optional,
\* the step is failed and the job fails, with the error of the first failed
\* step of the launched steps in step order (the selector's error when that is
\* this step, as it always is in sequential mode); when it fails for an
\* optional step, the step is skipped with the selector's message and the job
\* goes on: if it fails later, then not with this error.
C30_SelectionFailureFailsJobUnlessOptional ==
  \A k \in SelectFailed :
    IF StepOfPlace(k).optional
      THEN /\ stepStatuses[k].status = "skipped"
           /\ pc = "rejected" => rejection # SelectFailure(stepStatuses[k].task)
      ELSE /\ stepStatuses[k].status = "failed"
           /\ pc # "resolved"
           /\ pc = "rejected" =>
                LET bad == { j \in 1 .. Len(stepStatuses) :
                               stepStatuses[j].status = "failed" }
                    first == CHOOSE j \in bad : \A x \in bad : j <= x
                IN  /\ rejection.kind = "Error"
                    /\ rejection.msg = stepStatuses[first].error
                    /\ first = k => rejection = SelectFailure(stepStatuses[k].task)
                    /\ ~HasDependencies => first = k

\* A pipeline resolved although the selection failed for one of its steps,
\* an optional one, and a step after it completed.
C30_Witness ==
  /\ pc = "resolved"
  /\ \E k \in SelectFailed :
       /\ stepStatuses[k].status = "skipped"
       /\ \E j \in k + 1 .. Len(stepStatuses) : stepStatuses[j].status = "completed"

\* A pipeline rejected with the selector's error of a step that is not
\* optional.
C30_WitnessRejected ==
  /\ pc = "rejected"
  /\ \E k \in SelectFailed :
       /\ ~StepOfPlace(k).optional
       /\ rejection = SelectFailure(stepStatuses[k].task)

\* A DAG pipeline rejected with the error of a step that failed in its
\* backend, although a later step of the group failed in the selection.
C30_WitnessOtherError ==
  /\ pc = "rejected"
  /\ \E k \in SelectFailed :
       /\ stepStatuses[k].status = "failed"
       /\ rejection # SelectFailure(stepStatuses[k].task)

-----------------------------------------------------------------------------
(* Claims about templates *)

\* resolveTemplates has run on the field of the recipe, in a step's context.
FieldResolved == tPc = "done" /\ tKind \in {"sequential", "dag"}

\* interpolate has run on the string of the recipe, in an effect's context.
MessageSent == tPc = "done" /\ tKind = "effect"

\* The field is one template alone.
OneTemplate == recipe.shape \in {"whole", "spaced"}

RECURSIVE MappingValueAt(_, _)
\* The value a path of words refers to when only mappings are walked: the
\* field of the value its front refers to, if that is a mapping with the field.
MappingValueAt(ctx, q) ==
  IF q = <<>> THEN ctx
  ELSE LET parent == MappingValueAt(ctx, SubSeq(q, 1, Len(q) - 1))
           key == q[Len(q)]
       IN  IF parent.t = "object" /\ key \in DOMAIN parent.v THEN parent.v[key]
           ELSE Undef

RECURSIVE ObjectValueAt(_, _)
\* The value a path of words refers to when sequences are walked too: a
\* numeral below the length refers to the element at that index.
ObjectValueAt(ctx, q) ==
  IF q = <<>> THEN ctx
  ELSE LET parent == ObjectValueAt(ctx, SubSeq(q, 1, Len(q) - 1))
           key == q[Len(q)]
       IN  IF parent.t = "object" /\ key \in DOMAIN parent.v THEN parent.v[key]
           ELSE IF parent.t = "array" /\ \E n \in 1 .. Len(parent.v) : key = Numerals[n]
             THEN parent.v[CHOOSE n \in 1 .. Len(parent.v) : key = Numerals[n]]
           ELSE IF parent.t = "array" /\ key = "length" THEN Num(Len(parent.v))
           ELSE Undef

\* The results of the steps so far, in a sequential context.
ResultsSoFar == tContext.v["steps"].v

\* C24: in sequential mode a template of a later step resolves the result of
\* step i both as steps.<i>.<field> and as steps.step_<i>.<field> (here i = 0).
C24_ResultByIndexAndByKey ==
  (/\ FieldResolved /\ tKind = "sequential" /\ OneTemplate
   /\ Len(recipe.path) = 3
   /\ recipe.path[1] = "steps"
   /\ recipe.path[2] \in {Numerals[1], SynthIds[1]}
   /\ ResultsSoFar[1].t = "object"
   /\ recipe.path[3] \in DOMAIN ResultsSoFar[1].v)
  => resolved = ResultsSoFar[1].v[recipe.path[3]]

\* The part of C24 that holds: the numeric index resolves the result.
ResultByIndex ==
  (/\ FieldResolved /\ tKind = "sequential" /\ OneTemplate
   /\ Len(recipe.path) = 3
   /\ recipe.path[1] = "steps"
   /\ recipe.path[2] = Numerals[1]
   /\ ResultsSoFar[1].t = "object"
   /\ recipe.path[3] \in DOMAIN ResultsSoFar[1].v)
  => resolved = ResultsSoFar[1].v[recipe.path[3]]

\* C25: a field whose whole string is one {{ path }} template, spaces inside
\* the braces trimmed, resolves to the referenced value itself, with its
\* type; every other field is passed through unchanged.
C25_WholeTemplateKeepsType ==
  FieldResolved =>
    IF OneTemplate
      THEN resolved = ObjectValueAt(tContext, recipe.path)
      ELSE resolved = Field(recipe)

\* The part of C25 that holds: all fields but the strings that start with one
\* template and end with another.
WholeTemplateKeepsType ==
  (FieldResolved /\ recipe.shape # "between") =>
    IF OneTemplate
      THEN resolved = ObjectValueAt(tContext, recipe.path)
      ELSE resolved = Field(recipe)

\* A template with spaces resolved to an array, not to its text.
WholeTemplateWitness ==
  /\ FieldResolved
  /\ recipe.shape = "spaced"
  /\ resolved.t = "array"

\* What a reference {{q}} inside a string is to be replaced with: itself when
\* the walk stops at a value that has no properties before the last segment,
\* the empty text for a missing value, else the value as a string.
RefText(ctx, q) ==
  IF \E k \in 0 .. Len(q) - 1 : ObjectValueAt(ctx, SubSeq(q, 1, k)).t \notin {"object", "array"}
    THEN Ref(q)
    ELSE LET value == ObjectValueAt(ctx, q) IN
         IF value.t \in {"undefined", "null"} THEN <<>> ELSE StringOf(value)

\* The string of a recipe with text around its references, interpolated.
Interpolated(ctx, r) ==
  CASE r.shape = "prefixed" -> <<"see", Space>> \o RefText(ctx, r.path)
    [] r.shape = "suffixed" -> RefText(ctx, r.path) \o <<Space, "seen">>
    [] r.shape = "between" ->
         RefText(ctx, r.path) \o <<Space, "and", Space>> \o RefText(ctx, <<"result">>)

\* The string has references inside a larger string.
Embedded == recipe.shape \in {"prefixed", "suffixed", "between"}

\* C26: in a string of a step input or of an effect record that has {{path}}
\* references inside a larger string, every reference is replaced by the
\* referenced value as a string (the empty string for a missing value), and a
\* reference that cannot be resolved stays as it is.
C26_EmbeddedReferencesReplaced ==
  /\ (MessageSent /\ Embedded) => sent = Interpolated(tContext, recipe)
  /\ (FieldResolved /\ Embedded) => resolved = Str(Interpolated(tContext, recipe))

\* The part of C26 that holds: the message of a notify effect.
MessageInterpolated ==
  (MessageSent /\ Embedded) => sent = Interpolated(tContext, recipe)

\* A message with a replaced reference and one left as it is.
MessageWitness ==
  /\ MessageSent
  /\ recipe.shape = "between"
  /\ sent = Ref(recipe.path) \o <<Space, "and", Space, "x">>

\* C27: path evaluation returns undefined whenever the value it has reached
\* before a segment is not a mapping; a numeric segment never indexes into a
\* sequence.
C27_OnlyMappingsAreWalked ==
  (FieldResolved /\ OneTemplate) =>
    /\ (\E k \in 0 .. Len(recipe.path) - 1 :
          ObjectValueAt(tContext, SubSeq(recipe.path, 1, k)).t # "object")
         => resolved = Undef
    /\ resolved = MappingValueAt(tContext, recipe.path)

\* C27, amended: path evaluation returns undefined whenever the value it has
\* reached before a segment is null, undefined or a primitive; a sequence is
\* walked like a mapping: a segment that is the numeral of an index below its
\* length gives the element at that index.
C27_ObjectsAndSequencesAreWalked ==
  (FieldResolved /\ OneTemplate) =>
    /\ (\E k \in 0 .. Len(recipe.path) - 1 :
          ObjectValueAt(tContext, SubSeq(recipe.path, 1, k)).t \notin {"object", "array"})
         => resolved = Undef
    /\ resolved = ObjectValueAt(tContext, recipe.path)

\* {{steps.0.data}} resolved to the field of the first result of a sequential
\* context: the segment 0 indexed the array of results.
C27_Witness ==
  /\ FieldResolved /\ tKind = "sequential" /\ recipe.shape = "whole"
  /\ recipe.path = <<"steps", Numerals[1], "data">>
  /\ resolved = Num(7)

\* A path through a string resolved to undefined.
C27_WitnessPrimitive ==
  /\ FieldResolved /\ tKind = "dag" /\ OneTemplate
  /\ recipe.path = <<"steps", "a", "data">>
  /\ tContext.v["steps"].v["a"].t = "string"
  /\ resolved = Undef

-----------------------------------------------------------------------------
(* Claims about the status lookup *)

\* C29: the status lookup maps the broker's state to the public status:
\* completed to completed, failed and stuck to failed, active to running,
\* and every other state (waiting, delayed, paused, unknown, ...) to pending.
C29_StatusMapping ==
  sPc = "done" =>
    IF jobs[sQueue] = NoJobState
      THEN ~lookup.found
      ELSE /\ lookup.found
           /\ jobs[sQueue] = "completed" => lookup.status = "completed"
           /\ jobs[sQueue] \in {"failed", "stuck"} => lookup.status = "failed"
           /\ jobs[sQueue] = "active" => lookup.status = "running"
           /\ jobs[sQueue] \notin {"completed", "failed", "stuck", "active"} =>
                lookup.status = "pending"

\* A stuck job of the gpu queue was reported as failed, while the default
\* queue holds the job as waiting.
C29_Witness ==
  /\ sPc = "done"
  /\ sQueue = "gpu"
  /\ jobs["gpu"] = "stuck" /\ jobs["default"] = "waiting"
  /\ lookup = [found |-> TRUE, status |-> "failed"]

\* A paused job was reported as pending.
C29_WitnessPending ==
  /\ sPc = "done"
  /\ jobs[sQueue] = "paused"
  /\ lookup = [found |-> TRUE, status |-> "pending"]

-----------------------------------------------------------------------------
(* Claims about effects and the worker *)

SettledPhases == {"ok", "raise", "unknown"}

\* C15: runEffects never rejects; after a handler has raised, the loop has
\* gone on to the next effect; and when runEffects has resolved, the handler
\* of every effect that has one was invoked and has settled.
C15_EveryHandlerInvoked ==
  \A id \in DOMAIN runs :
    LET r == runs[id] IN
    /\ r.status # "rejected"
    /\ \A k \in DOMAIN r.ph :
         (r.ph[k] = "raise" /\ k < Len(r.ph)) => r.ph[k + 1] # "idle"
    /\ r.status = "resolved" =>
         \A k \in DOMAIN r.ph :
           r.ph[k] \in (IF HasHandler(r.list[k]) THEN {"ok", "raise"} ELSE {"unknown"})

\* runEffects has resolved after its first handler raised and its last one
\* succeeded.
C15_Witness ==
  \E id \in DOMAIN runs :
    /\ runs[id].status = "resolved"
    /\ Len(runs[id].ph) >= 2
    /\ runs[id].ph[1] = "raise"
    /\ runs[id].ph[Len(runs[id].ph)] = "ok"

\* C16: within a call of runEffects the effects are taken in declaration
\* order, and the handler of an effect is invoked only when the handlers of
\* all effects before it have settled: at most one handler is in flight.
C16_HandlersInOrderOneAtATime ==
  \A id \in DOMAIN runs :
    LET r == runs[id] IN
    \A k \in DOMAIN r.ph :
      r.ph[k] # "idle" => \A j \in 1 .. k - 1 : r.ph[j] \in SettledPhases

\* The second handler of a list is in flight, after the first one failed,
\* and a third effect waits.
C16_Witness ==
  \E id \in DOMAIN runs :
    /\ Len(runs[id].ph) >= 3
    /\ runs[id].ph[1] = "raise"
    /\ runs[id].ph[2] = "call"
    /\ runs[id].ph[3] = "idle"

C18_OnErrorBeforeFailureReported ==
  (wPc = "thrown" /\ outcome \in TaskErrors) =>
    /\ reported = outcome
    /\ Len(job.onError) > 0 =>
         /\ ErrorRun \in DOMAIN runs
         /\ runs[ErrorRun].list = job.onError
         /\ runs[ErrorRun].ctx.error = ErrorMessage(outcome)
         /\ runs[ErrorRun].status = "resolved"
         /\ \A k \in DOMAIN runs[ErrorRun].ph : runs[ErrorRun].ph[k] \in SettledPhases

\* The processor has thrown a value that is not an Error, after two onError
\* handlers of which one raised.
C18_Witness ==
  /\ wPc = "thrown"
  /\ reported.kind = "string"
  /\ ErrorRun \in DOMAIN runs
  /\ \E k \in DOMAIN runs[ErrorRun].ph, j \in DOMAIN runs[ErrorRun].ph :
       /\ runs[ErrorRun].ph[k] = "raise"
       /\ runs[ErrorRun].ph[j] = "ok"

\* C19 (as stated): once the processor has returned, the progress of the job
\* in the broker is 100.
C19_ProgressIsHundredOnSuccess ==
  wPc = "returned" => jobProgress = 100

\* C20 (as stated): when processTask has begun for a job that has onPending
\* effects, runEffects has been called on them.
C20_OnPendingBeforeExecution ==
  (wPc \in {"task", "p100", "success", "error", "returned", "thrown"}
     /\ Len(job.onPending) > 0) =>
    PendingRun \in DOMAIN runs

-----------------------------------------------------------------------------
(* Claims about executeWithRetry *)

IsFailure(v) == v.kind \in {"Error", "string"}

\* C7: with attempts = n > 1 the producer is invoked at most n times; the
\* first success ends the call and is its result (k failures and then a
\* success are exactly k + 1 invocations); after n failures the call rejects
\* with the error of the last attempt (the raised value itself when it is an
\* Error, and otherwise an Error carrying its text).
C7_RetryUpToAttempts ==
  ~NoRetry(policy) =>
    /\ Len(calls) <= policy.attempts
    /\ \A k \in 1 .. Len(calls) - 1 : IsFailure(calls[k])
    /\ rPc = "resolved" =>
         /\ settled = calls[Len(calls)]
         /\ settled = Result(Len(calls))
    /\ rPc = "rejected" =>
         /\ Len(calls) = policy.attempts
         /\ IsFailure(calls[Len(calls)])
         /\ settled.kind = "Error"
         /\ settled.msg = calls[Len(calls)].msg
         /\ calls[Len(calls)].kind = "Error" => settled = calls[Len(calls)]

\* Three failures under attempts = 3, the last error differing from the first.
C7_Witness ==
  /\ policy.attempts = 3
  /\ rPc = "rejected"
  /\ Len(calls) = 3
  /\ calls[1].msg = "boom"
  /\ settled.msg = "bang"

\* Two failures and then a success under attempts = 3.
C7_WitnessSuccess ==
  /\ policy.attempts = 3
  /\ rPc = "resolved"
  /\ Len(calls) = 3

\* C8 (as stated): the wait before attempt k is delay for fixed backoff and
\* delay * 2^(k-1) for exponential backoff, for every configured delay.
C8_WaitBeforeAttempt ==
  \A i \in 1 .. Len(waits) :
    policy.delay # Undefined =>
      /\ policy.backoff = "fixed" => waits[i].ms = policy.delay
      /\ policy.backoff = "exponential" =>
           waits[i].ms = policy.delay * Pow2(waits[i].before - 1)

\* What the code does instead: the wait after failed attempt k (before
\* attempt k + 1) is d, or d * 2^(k-1) for exponential backoff, where d is
\* the configured delay, or 1000 when that is absent or 0.
WaitAfterAttempt ==
  \A i \in 1 .. Len(waits) :
    LET d == IF policy.delay \in {Undefined, 0} THEN 1000 ELSE policy.delay
        k == waits[i].before - 1
    IN  /\ waits[i].before = i + 1
        /\ waits[i].ms = IF policy.backoff = "exponential" THEN d * Pow2(k - 1) ELSE d

\* C9: without a policy, or with attempts <= 1, the producer is invoked
\* exactly once, there is no wait, and a failure is the caller's as the very
\* value the producer raised.
C9_NoRetryPassesThrough ==
  ((policy = NoPolicy \/ policy.attempts \in {Undefined, 0, 1}) /\ rPc # "idle") =>
    /\ Len(calls) = 1
    /\ waits = <<>>
    /\ rPc = "rejected" => (IsFailure(calls[1]) /\ settled = calls[1])
    /\ rPc = "resolved" => settled = calls[1]

\* attempts = 1, and the producer raised a value that is not an Error.
C9_Witness ==
  /\ policy.attempts = 1
  /\ rPc = "rejected"
  /\ settled.kind = "string"

====
